---------------------------- MODULE Spec2Model ----------------------------
(***************************************************************************)
(* A model of the utterance scoring engine of bbrc_digital (normalize,     *)
(* tokenize, the vocabulary tables, classifyToken and the three scorers)   *)
(* of the reducer of App.tsx that merges each scorer result into the       *)
(* session state, and of the screens of App.tsx and the VoiceRecorder      *)
(* component that decide when the reducer is dispatched to.                *)
(*                                                                         *)
(* utils/storage.ts is modelled on its own, called by any caller: no       *)
(* definition of the scorers, the reducer or the screens reads the stored  *)
(* patients, and the calls the screens make to createPatient and           *)
(* addTestResult are not part of the screen handlers below.                *)
(*                                                                         *)
(* Text.  A string is a sequence of characters and a character is a TLA+   *)
(* string: "a".."z" and "A".."Z" are the plain letters, "a+0303" is the    *)
(* precomposed letter a-tilde (U+00E3), "+0303" alone is the combining     *)
(* tilde (U+0303), and so on for the marks U+0301, U+0302 and U+0327.      *)
(* " " and "\t" are white space; "," "." ";" "!" "?" are punctuation.      *)
(*                                                                         *)
(* A SpokenToken is the record [raw, normalized, classification,           *)
(* mappedId]; an absent mappedId is the value Undefined.  The timestamp    *)
(* field (Date.now()) is not read by any code of the repository and is     *)
(* left out of the record.                                                 *)
(***************************************************************************)
EXTENDS Integers, Sequences, FiniteSets, TLC

VARIABLES
  vocabulary,             \* the configuration scoring.ts was loaded with
  cachedAnimalSource,     \* scoring: the dictionary object last normalized
  cachedNormalizedAnimals,\* scoring: its normalized entries
  addedAnimals,           \* the entries callers added to each dictionary
                          \* object since it was created
  localStorage,           \* storage: the item BBRC_PATIENTS of localStorage
  stage,                  \* TestState.stage
  currentStageFoundWords, \* TestState.currentStageFoundWords
  verbalFluencyList,      \* TestState.verbalFluencyList
  currentStageResponses,  \* TestState.currentStageResponses
  scores,                 \* TestState.scores (the numeric keys)
  currentPatientId,       \* TestState.currentPatientId
  clockImageBase64,       \* TestState.clockImageBase64
  spoken,                 \* number of final transcripts processed in the session
  pc,                     \* position of the caller of a scorer
  args,                   \* arguments of the scorer call
  result,                 \* value returned by the scorer call
  trace,                  \* what the call did, step by step (history)
  timeStartedDelayed,     \* TestState.timeStartedDelayed: "null" or "set"
  elapsed,                \* Date.now() - timeStartedDelayed, in clock ticks
  isMicGlobalActive,      \* App: isMicGlobalActive
  liveTranscript,         \* App: liveTranscript
  clearTimers,            \* App: pending setTimeout(setLiveTranscript(""))
  recognitionRef,         \* VoiceRecorder: recognitionRef.current
  restartTimer,           \* VoiceRecorder: pending setTimeout(startRecognition)
  stoppedSession,         \* VoiceRecorder: a recognition stop() was called on
                          \* has not ended yet
  micVerified,            \* PreTestCheck: micVerified
  phaseMode,              \* MemoryPhase: phaseMode
  timeLeft,               \* MemoryPhase / FluencyPhase: timeLeft, in ticks
  remainingDelay,         \* MemoryPhase: remainingDelay, in clock ticks
  isActive,               \* FluencyPhase: isActive
  interrupted,            \* PostTestCheck: interrupted: "null", "true", "false"
  manualScore,            \* ClockPhase: manualScore
  isAnalyzing,            \* ClockPhase: isAnalyzing
  pendingAnalysis,        \* ClockPhase: the calls of analyzeClockDrawing
                          \* awaited, each with the number of its drawing
                          \* and whether the ClockPhase that awaits it is
                          \* still rendered
  savedDrawings,          \* ClockPhase: number of calls of handleSave
  scoreSource,            \* what wrote scores.clockDrawing last (history)
  delivered               \* the recognizer result last handed to onResult
                          \* (history)

tables == <<vocabulary, addedAnimals, localStorage>>
cache == <<cachedAnimalSource, cachedNormalizedAnimals>>
app == <<stage, currentStageFoundWords, verbalFluencyList,
         currentStageResponses, scores, currentPatientId, clockImageBase64,
         spoken>>
call == <<pc, args, result, trace>>
timer == <<timeStartedDelayed, elapsed>>
recorder == <<isMicGlobalActive, recognitionRef, restartTimer,
              stoppedSession>>
screen == <<liveTranscript, clearTimers, micVerified, phaseMode, timeLeft,
            remainingDelay, isActive, interrupted>>
clock == <<manualScore, isAnalyzing, pendingAnalysis, savedDrawings,
           scoreSource>>
ui == <<timer, recorder, screen, clock, delivered>>
vars == <<tables, cache, app, call, ui>>

(***************************************************************************)
(* Characters                                                              *)
(***************************************************************************)
\* U+0300..U+036F, the range the regular expression of normalize removes
CombiningMarks == {"+0301", "+0302", "+0303", "+0327"}

\* String.prototype.normalize('NFD') on one character: a precomposed letter
\* becomes its base letter followed by its combining mark
Decompose(c) ==
  CASE c = "a+0301" -> <<"a", "+0301">>
    [] c = "A+0301" -> <<"A", "+0301">>
    [] c = "a+0303" -> <<"a", "+0303">>
    [] c = "A+0303" -> <<"A", "+0303">>
    [] c = "c+0327" -> <<"c", "+0327">>
    [] c = "e+0301" -> <<"e", "+0301">>
    [] c = "e+0302" -> <<"e", "+0302">>
    [] c = "i+0301" -> <<"i", "+0301">>
    [] c = "o+0301" -> <<"o", "+0301">>
    [] OTHER -> <<c>>

\* String.prototype.toLowerCase on one character
LowerChar(c) ==
  CASE c = "A" -> "a" [] c = "B" -> "b" [] c = "C" -> "c" [] c = "D" -> "d"
    [] c = "E" -> "e" [] c = "F" -> "f" [] c = "G" -> "g" [] c = "H" -> "h"
    [] c = "I" -> "i" [] c = "J" -> "j" [] c = "K" -> "k" [] c = "L" -> "l"
    [] c = "M" -> "m" [] c = "N" -> "n" [] c = "O" -> "o" [] c = "P" -> "p"
    [] c = "Q" -> "q" [] c = "R" -> "r" [] c = "S" -> "s" [] c = "T" -> "t"
    [] c = "U" -> "u" [] c = "V" -> "v" [] c = "W" -> "w" [] c = "X" -> "x"
    [] c = "Y" -> "y" [] c = "Z" -> "z"
    [] c = "A+0301" -> "a+0301" [] c = "A+0303" -> "a+0303"
    [] OTHER -> c

\* the characters \s matches and trim() removes
WhiteSpace == {" ", "\t"}

\* the character class [\s,.;!?] of tokenize
SplitChars == WhiteSpace \cup {",", ".", ";", "!", "?"}

(***************************************************************************)
(* normalize and tokenize                                                  *)
(***************************************************************************)
\* the elements of a finite set of integers in increasing order
Ascending(S) ==
  [k \in 1..Cardinality(S) |->
     CHOOSE x \in S : Cardinality({y \in S : y < x}) = k - 1]

\* no character: the second place of a character that decomposes into one
NoChar == "none"

\* the n-th character (n = 1, 2) of the decomposition of c
DecomposedAt(c, n) ==
  IF n <= Len(Decompose(c)) THEN Decompose(c)[n] ELSE NoChar

\* String.prototype.normalize('NFD'): every character replaced, in place,
\* by its decomposition
NFD(text) ==
  SelectSeq([k \in 1..(2 * Len(text)) |->
               DecomposedAt(text[(k + 1) \div 2], 2 - (k % 2))],
            LAMBDA c : c # NoChar)

\* .replace(/[\u0300-\u036f]/g, '')
StripMarks(text) == SelectSeq(text, LAMBDA c : c \notin CombiningMarks)

toLowerCase(text) == [i \in DOMAIN text |-> LowerChar(text[i])]

\* the part of text from the least to the greatest of the positions kept
Between(text, kept) ==
  IF kept = {} THEN <<>>
  ELSE SubSeq(text, CHOOSE i \in kept : \A j \in kept : i <= j,
                    CHOOSE i \in kept : \A j \in kept : j <= i)

\* String.prototype.trim: what lies between the first and the last character
\* that is not white space
trim(text) ==
  Between(text, {i \in DOMAIN text : text[i] \notin WhiteSpace})

\* fault: the combining marks are removed before the text is decomposed
normalizeStripFirst(text) == trim(toLowerCase(NFD(StripMarks(text))))

normalize(text) == trim(toLowerCase(StripMarks(NFD(text))))

\* the fragments of text around the maximal runs of separators, given the
\* first and the last position of each run
Fragments(text, runStart, runEnd) ==
  [k \in 1..(Len(runStart) + 1) |->
     SubSeq(text,
            IF k = 1 THEN 1 ELSE runEnd[k - 1] + 1,
            IF k > Len(runStart) THEN Len(text) ELSE runStart[k] - 1)]

SplitAt(text, seps) ==
  Fragments(text, Ascending({i \in seps : (i - 1) \notin seps}),
                  Ascending({i \in seps : (i + 1) \notin seps}))

\* String.prototype.split(/[\s,.;!?]+/): the fragments between maximal runs
\* of separator characters, empty fragments at either end included
split(text) == SplitAt(text, {i \in DOMAIN text : text[i] \in SplitChars})

MapSeq(f(_), s) == [i \in DOMAIN s |-> f(s[i])]

\* fault: the empty fragments are kept
tokenizeUnfiltered(transcript) == MapSeq(trim, split(transcript))

tokenize(transcript) ==
  SelectSeq(MapSeq(trim, split(transcript)), LAMBDA w : w # <<>>)

(***************************************************************************)
(* constants.ts                                                            *)
(***************************************************************************)
TARGET_WORDS ==
  << <<"s","a","p","a","t","o">>,
     <<"b","a","l","d","e">>,
     <<"c","a","s","a">>,
     <<"t","a","r","t","a","r","u","g","a">>,
     <<"p","e","n","t","e">>,
     <<"l","i","v","r","o">>,
     <<"c","h","a","v","e">>,
     <<"c","o","l","h","e","r">>,
     <<"a","v","i","a+0303","o">>,
     <<"a+0301","r","v","o","r","e">> >>

TARGET_SYNONYMS ==
  <<"s","a","p","a","t","o">> :> << <<"s","a","p","a","t","o","s">>, <<"s","a","p","a","t","i","n","h","o">>, <<"s","a","p","a","t","i","l","h","a">> >> @@
  <<"b","a","l","d","e">> :> << <<"b","a","l","d","e","s">>, <<"b","a","l","d","i","n","h","o">> >> @@
  <<"c","a","s","a">> :> << <<"c","a","s","i","n","h","a">>, <<"l","a","r">> >> @@
  <<"t","a","r","t","a","r","u","g","a">> :> << <<"j","a","b","u","t","i">>, <<"t","a","r","t","a","r","u","g","u","i","n","h","a">> >> @@
  <<"p","e","n","t","e">> :> << <<"p","e","n","t","e","s">>, <<"p","e","n","t","e"," ","d","e"," ","c","a","b","e","l","o">> >> @@
  <<"l","i","v","r","o">> :> << <<"l","i","v","r","o","s">>, <<"c","a","d","e","r","n","e","t","a">> >> @@
  <<"c","h","a","v","e">> :> << <<"c","h","a","v","e","s">> >> @@
  <<"c","o","l","h","e","r">> :> << <<"c","o","l","h","e","r","e","s">>, <<"c","o","l","h","e","r","z","i","n","h","a">> >> @@
  <<"a","v","i","a+0303","o">> :> << <<"a","v","i","a","o">>, <<"a","v","i","o","n">>, <<"a","e","r","o","p","l","a","n","o">> >> @@
  <<"a+0301","r","v","o","r","e">> :> << <<"a","r","v","o","r","e">>, <<"a","r","v","o","r","e","z","i","n","h","a">> >>

DISTRACTOR_WORDS ==
  << <<"c","a","m","i","n","h","a+0303","o">>,
     <<"f","e","r","r","o">>,
     <<"f","o","l","h","a">>,
     <<"c","h","a","l","e","i","r","a">>,
     <<"b","i","c","i","c","l","e","t","a">>,
     <<"b","a","n","a","n","a">>,
     <<"n","a","v","i","o">>,
     <<"p","o","r","c","o">>,
     <<"c","a","s","a","c","o">>,
     <<"c","a","r","r","o">> >>

RECOGNITION_ITEMS == <<
  [id |-> <<"s","a","p","a","t","o">>, isTarget |-> TRUE, synonyms |-> TARGET_SYNONYMS[<<"s","a","p","a","t","o">>]],
  [id |-> <<"b","a","l","d","e">>, isTarget |-> TRUE, synonyms |-> TARGET_SYNONYMS[<<"b","a","l","d","e">>]],
  [id |-> <<"c","a","s","a">>, isTarget |-> TRUE, synonyms |-> TARGET_SYNONYMS[<<"c","a","s","a">>]],
  [id |-> <<"t","a","r","t","a","r","u","g","a">>, isTarget |-> TRUE, synonyms |-> TARGET_SYNONYMS[<<"t","a","r","t","a","r","u","g","a">>]],
  [id |-> <<"p","e","n","t","e">>, isTarget |-> TRUE, synonyms |-> TARGET_SYNONYMS[<<"p","e","n","t","e">>]],
  [id |-> <<"l","i","v","r","o">>, isTarget |-> TRUE, synonyms |-> TARGET_SYNONYMS[<<"l","i","v","r","o">>]],
  [id |-> <<"c","h","a","v","e">>, isTarget |-> TRUE, synonyms |-> TARGET_SYNONYMS[<<"c","h","a","v","e">>]],
  [id |-> <<"c","o","l","h","e","r">>, isTarget |-> TRUE, synonyms |-> TARGET_SYNONYMS[<<"c","o","l","h","e","r">>]],
  [id |-> <<"a","v","i","a+0303","o">>, isTarget |-> TRUE, synonyms |-> TARGET_SYNONYMS[<<"a","v","i","a+0303","o">>]],
  [id |-> <<"a+0301","r","v","o","r","e">>, isTarget |-> TRUE, synonyms |-> TARGET_SYNONYMS[<<"a+0301","r","v","o","r","e">>]],
  [id |-> <<"c","a","m","i","n","h","a+0303","o">>, isTarget |-> FALSE, synonyms |-> << <<"c","a","m","i","n","h","a","o">>, <<"c","a","m","i","n","h","o","n","e","t","e">> >>],
  [id |-> <<"f","e","r","r","o">>, isTarget |-> FALSE, synonyms |-> << <<"f","e","r","r","o">> >>],
  [id |-> <<"f","o","l","h","a">>, isTarget |-> FALSE, synonyms |-> <<>>],
  [id |-> <<"c","h","a","l","e","i","r","a">>, isTarget |-> FALSE, synonyms |-> <<>>],
  [id |-> <<"b","i","c","i","c","l","e","t","a">>, isTarget |-> FALSE, synonyms |-> << <<"b","i","k","e">> >>],
  [id |-> <<"b","a","n","a","n","a">>, isTarget |-> FALSE, synonyms |-> <<>>],
  [id |-> <<"n","a","v","i","o">>, isTarget |-> FALSE, synonyms |-> << <<"b","a","r","c","o">> >>],
  [id |-> <<"p","o","r","c","o">>, isTarget |-> FALSE, synonyms |-> << <<"p","o","r","q","u","i","n","h","o">> >>],
  [id |-> <<"c","a","s","a","c","o">>, isTarget |-> FALSE, synonyms |-> << <<"p","a","l","e","t","o+0301">>, <<"b","l","a","z","e","r">> >>],
  [id |-> <<"c","a","r","r","o">>, isTarget |-> FALSE, synonyms |-> <<>>] >>

ANIMAL_LIST == {
  <<"c","a","c","h","o","r","r","o">>,
  <<"g","a","t","o">>,
  <<"c","a","v","a","l","o">>,
  <<"v","a","c","a">>,
  <<"p","o","r","c","o">>,
  <<"o","v","e","l","h","a">>,
  <<"b","o","d","e">>,
  <<"c","a","b","r","a">>,
  <<"g","a","l","i","n","h","a">>,
  <<"p","a","t","o">>,
  <<"g","a","n","s","o">>,
  <<"p","e","r","u">>,
  <<"p","o","m","b","o">>,
  <<"p","a","r","d","a","l">>,
  <<"c","a","n","a+0301","r","i","o">>,
  <<"p","a","p","a","g","a","i","o">>,
  <<"a","r","a","r","a">>,
  <<"a+0301","g","u","i","a">>,
  <<"f","a","l","c","a+0303","o">>,
  <<"c","o","r","u","j","a">>,
  <<"t","i","g","r","e">>,
  <<"l","e","a+0303","o">>,
  <<"o","n","c+0327","a">>,
  <<"e","l","e","f","a","n","t","e">>,
  <<"r","i","n","o","c","e","r","o","n","t","e">>,
  <<"h","i","p","o","p","o+0301","t","a","m","o">>,
  <<"g","i","r","a","f","a">>,
  <<"z","e","b","r","a">>,
  <<"u","r","s","o">>,
  <<"c","a","n","g","u","r","u">>,
  <<"c","o","a","l","a">>,
  <<"m","a","c","a","c","o">>,
  <<"g","o","r","i","l","a">>,
  <<"c","h","i","m","p","a","n","z","e+0301">>,
  <<"o","r","a","n","g","o","t","a","n","g","o">>,
  <<"b","a","b","u","i+0301","n","o">>,
  <<"m","a","n","d","r","i","l">>,
  <<"l","e+0302","m","u","r","e">>,
  <<"m","o","r","c","e","g","o">>,
  <<"t","a","m","a","n","d","u","a+0301">>,
  <<"t","a","t","u">>,
  <<"c","a","p","i","v","a","r","a">>,
  <<"g","u","a","x","i","n","i","m">>,
  <<"r","a","p","o","s","a">>,
  <<"l","o","b","o">>,
  <<"l","o","b","o","-","g","u","a","r","a+0301">>,
  <<"g","a","t","o","-","d","o","-","m","a","t","o">>,
  <<"p","a","n","d","a">>,
  <<"p","a","n","d","a","-","v","e","r","m","e","l","h","o">>,
  <<"g","o","l","f","i","n","h","o">>,
  <<"b","a","l","e","i","a">>,
  <<"t","u","b","a","r","a+0303","o">>,
  <<"p","e","i","x","e">>,
  <<"p","o","l","v","o">>,
  <<"l","u","l","a">>,
  <<"c","a","r","a","n","g","u","e","j","o">>,
  <<"l","a","g","o","s","t","a">>,
  <<"c","a","m","a","r","a+0303","o">>,
  <<"t","a","r","t","a","r","u","g","a">>,
  <<"j","a","b","u","t","i">>,
  <<"j","a","c","a","r","e+0301">>,
  <<"c","r","o","c","o","d","i","l","o">>,
  <<"l","a","g","a","r","t","i","x","a">>,
  <<"c","a","m","a","l","e","a+0303","o">>,
  <<"c","o","b","r","a">>,
  <<"s","a","l","a","m","a","n","d","r","a">>,
  <<"r","a+0303">>,
  <<"s","a","p","o">>,
  <<"p","e","r","e","r","e","c","a">>,
  <<"f","o","r","m","i","g","a">>,
  <<"a","b","e","l","h","a">>,
  <<"v","e","s","p","a">>,
  <<"b","o","r","b","o","l","e","t","a">>,
  <<"m","a","r","i","p","o","s","a">>,
  <<"g","r","i","l","o">>,
  <<"g","a","f","a","n","h","o","t","o">>,
  <<"l","o","u","v","a","-","a","-","d","e","u","s">>,
  <<"b","e","s","o","u","r","o">>,
  <<"j","o","a","n","i","n","h","a">>,
  <<"v","a","g","a","l","u","m","e">>,
  <<"l","i","b","e+0301","l","u","l","a">>,
  <<"m","o","s","c","a">>,
  <<"m","o","s","q","u","i","t","o">>,
  <<"p","u","l","g","a">>,
  <<"a","r","a","n","h","a">>,
  <<"e","s","c","o","r","p","i","a+0303","o">>,
  <<"c","a","r","r","a","p","a","t","o">>,
  <<"c","e","n","t","o","p","e","i","a">>,
  <<"m","i","n","h","o","c","a">>,
  <<"l","e","s","m","a">>,
  <<"c","a","r","a","c","o","l">>,
  <<"o","s","t","r","a">>,
  <<"m","e","x","i","l","h","a+0303","o">>,
  <<"a+0301","g","u","a","-","v","i","v","a">>,
  <<"c","o","r","a","l">>,
  <<"e","n","g","u","i","a">>,
  <<"a","r","r","a","i","a">>,
  <<"p","i","r","a","n","h","a">>,
  <<"s","a","r","d","i","n","h","a">>,
  <<"b","a","c","a","l","h","a","u">>,
  <<"p","e","i","x","e","-","b","o","i">>,
  <<"p","i","n","g","u","i","m">>,
  <<"a","v","e","s","t","r","u","z">>,
  <<"e","m","a">>,
  <<"g","a","r","c+0327","a">>,
  <<"c","i","s","n","e">>,
  <<"p","a","v","a+0303","o">>,
  <<"t","u","c","a","n","o">>,
  <<"b","e","i","j","a","-","f","l","o","r">>,
  <<"a","n","d","o","r","i","n","h","a">>,
  <<"s","a","b","i","a+0301">>,
  <<"p","i","c","a","-","p","a","u">>,
  <<"c","o","r","v","o">>,
  <<"g","r","a","l","h","a">>,
  <<"m","i","c","o","-","l","e","a+0303","o","-","d","o","u","r","a","d","o">>,
  <<"b","i","c","h","o","-","p","r","e","g","u","i","c+0327","a">>,
  <<"q","u","a","t","i">>,
  <<"j","a","v","a","l","i">>,
  <<"o","u","r","i","c+0327","o">>,
  <<"e","s","q","u","i","l","o">>,
  <<"l","o","n","t","r","a">>,
  <<"t","e","x","u","g","o">>,
  <<"s","u","r","i","c","a","t","o">>,
  <<"l","h","a","m","a">>,
  <<"a","l","p","a","c","a">>,
  <<"v","i","c","u","n","h","a">> }

\* the configurations scoring.ts can be loaded with; SHIPPED is constants.ts
\* and COLLIDING is a configuration of the same shape in which "lar" and
\* "aviao" are target forms and distractor forms, and "moradia" is a target
\* synonym and a synonym of the distractor item "carro"
Vocabularies ==
  [SHIPPED |->
     [TARGET_WORDS |-> TARGET_WORDS, TARGET_SYNONYMS |-> TARGET_SYNONYMS,
      DISTRACTOR_WORDS |-> DISTRACTOR_WORDS,
      RECOGNITION_ITEMS |-> RECOGNITION_ITEMS],
   COLLIDING |->
     [TARGET_WORDS |-> << <<"c","a","s","a">>, <<"a","v","i","a+0303","o">> >>,
      TARGET_SYNONYMS |->
        (<<"c","a","s","a">> :>
           << <<"l","a","r">>, <<"m","o","r","a","d","i","a">> >>),
      DISTRACTOR_WORDS |->
        << <<"l","a","r">>, <<"A","v","i","a","o">>, <<"c","a","r","r","o">> >>,
      RECOGNITION_ITEMS |->
        << [id |-> <<"c","a","s","a">>, isTarget |-> TRUE,
            synonyms |-> << <<"l","a","r">> >>],
           [id |-> <<"a","v","i","a+0303","o">>, isTarget |-> TRUE,
            synonyms |-> <<>>],
           [id |-> <<"c","a","r","r","o">>, isTarget |-> FALSE,
            synonyms |-> << <<"m","o","r","a","d","i","a">> >>] >>]]

(***************************************************************************)
(* The vocabulary tables, built once when scoring.ts is loaded             *)
(***************************************************************************)
EmptyMap == [k \in {} |-> k]

\* A call map.set(key, value) is the record [at, key, value]; at = <<i, j>>
\* places it in program order: the j-th call made for the i-th element of
\* the list the loop runs over (j = 0 for the element itself, j >= 1 for
\* its j-th synonym).
Later(a, b) == a[1] > b[1] \/ (a[1] = b[1] /\ a[2] > b[2])

\* Map.prototype.set: the Map a series of calls leaves holds, for each key,
\* the value of the last call made with that key
MapOf(calls) ==
  LET last(k) == CHOOSE s \in calls :
                   /\ s.key = k
                   /\ \A q \in calls : q.key = k => ~Later(q.at, s.at)
  IN  [k \in {s.key : s \in calls} |-> last(k).value] @@ EmptyMap

\* fault: a synonym is registered with itself as the identity
targetCallsSynonymAsId(config) ==
  UNION {
    LET target == config.TARGET_WORDS[i]
        canonical == normalize(target)
        synonyms == IF target \in DOMAIN config.TARGET_SYNONYMS
                    THEN config.TARGET_SYNONYMS[target] ELSE <<>>
    IN  {[at |-> <<i, 0>>, key |-> canonical,
          value |-> [id |-> target, canonical |-> canonical]]} \cup
        {[at |-> <<i, j>>, key |-> normalize(synonyms[j]),
          value |-> [id |-> synonyms[j], canonical |-> canonical]] :
           j \in DOMAIN synonyms} :
    i \in DOMAIN config.TARGET_WORDS}

\* the calls allTargetForms.set(...) of the loop over TARGET_WORDS
targetCalls(config) ==
  UNION {
    LET target == config.TARGET_WORDS[i]
        canonical == normalize(target)
        entry == [id |-> target, canonical |-> canonical]
        synonyms == IF target \in DOMAIN config.TARGET_SYNONYMS
                    THEN config.TARGET_SYNONYMS[target] ELSE <<>>
    IN  {[at |-> <<i, 0>>, key |-> canonical, value |-> entry]} \cup
        {[at |-> <<i, j>>, key |-> normalize(synonyms[j]), value |-> entry] :
           j \in DOMAIN synonyms} :
    i \in DOMAIN config.TARGET_WORDS}

buildAllTargetForms(config) == MapOf(targetCalls(config))

buildDistractorForms(config) ==
  {normalize(config.DISTRACTOR_WORDS[i]) :
     i \in DOMAIN config.DISTRACTOR_WORDS}

\* the calls recognitionVocabulary.set(...) of the loop over
\* RECOGNITION_ITEMS; an item without a synonyms property is written with
\* synonyms = <<>>
itemCalls(config) ==
  UNION {
    LET item == config.RECOGNITION_ITEMS[i]
        entry == [id |-> item.id, isTarget |-> item.isTarget]
    IN  {[at |-> <<i, 0>>, key |-> normalize(item.id), value |-> entry]} \cup
        {[at |-> <<i, j>>, key |-> normalize(item.synonyms[j]),
          value |-> entry] : j \in DOMAIN item.synonyms} :
    i \in DOMAIN config.RECOGNITION_ITEMS}

buildRecognitionVocabulary(config) == MapOf(itemCalls(config))

\* the three tables of scoring.ts, built once when the module is loaded
buildTables(config) ==
  [allTargetForms |-> buildAllTargetForms(config),
   distractorForms |-> buildDistractorForms(config),
   recognitionVocabulary |-> buildRecognitionVocabulary(config)]

LoadedTables ==
  [SHIPPED |-> buildTables(Vocabularies.SHIPPED),
   COLLIDING |-> buildTables(Vocabularies.COLLIDING)]

\* the tables of the loaded configuration
\* Map canonical form -> [id, canonical]
allTargetForms == LoadedTables[vocabulary].allTargetForms
\* Set of canonical distractor forms
distractorForms == LoadedTables[vocabulary].distractorForms
\* Map canonical form -> [id, isTarget]
recognitionVocabulary == LoadedTables[vocabulary].recognitionVocabulary

\* scoring.ts once it is loaded with the configuration v; the two cache
\* variables are null (the model keeps {} for the null Set and tells the
\* two apart by cachedAnimalSource)
ModuleLoaded(v) ==
  /\ vocabulary = v
  /\ cachedAnimalSource = "null"
  /\ cachedNormalizedAnimals = {}

(***************************************************************************)
(* classifyToken and the recall and recognition scorers                    *)
(***************************************************************************)
\* the value of an absent mappedId
Undefined == <<"undefined">>

\* the object classifyToken starts from: { raw: token, normalized,
\* classification: 'intrusion', timestamp }
baseToken(token) ==
  [raw |-> token, normalized |-> normalize(token),
   classification |-> "intrusion", mappedId |-> Undefined]

\* Variants of classifyBase with one fault each; the properties below are
\* expected to fail when classifyBase is replaced by one of them.
\* (1) the spoken form, not the identity of the target, becomes the mappedId
classifyBaseSpokenId(base, t, seenTargets, allowDistractors) ==
  IF base.normalized \in DOMAIN t.allTargetForms
  THEN IF t.allTargetForms[base.normalized].canonical \in seenTargets
       THEN [token |-> [base EXCEPT !.classification = "repeat",
                                    !.mappedId = base.raw],
             seenTargets |-> seenTargets]
       ELSE [token |-> [base EXCEPT !.classification = "target",
                                    !.mappedId = base.raw],
             seenTargets |->
               seenTargets \cup
                 {t.allTargetForms[base.normalized].canonical}]
  ELSE IF base.normalized \in t.distractorForms
  THEN [token |-> [base EXCEPT !.mappedId = base.normalized],
        seenTargets |-> seenTargets]
  ELSE [token |-> base, seenTargets |-> seenTargets]

\* (2) the distractor forms are looked up before the target table
classifyBaseDistractorFirst(base, t, seenTargets, allowDistractors) ==
  IF base.normalized \in t.distractorForms
  THEN [token |-> [base EXCEPT
                     !.classification =
                       IF allowDistractors THEN "distractor" ELSE "intrusion",
                     !.mappedId = base.normalized],
        seenTargets |-> seenTargets]
  ELSE IF base.normalized \in DOMAIN t.allTargetForms
  THEN IF t.allTargetForms[base.normalized].canonical \in seenTargets
       THEN [token |-> [base EXCEPT
                          !.classification = "repeat",
                          !.mappedId = t.allTargetForms[base.normalized].id],
             seenTargets |-> seenTargets]
       ELSE [token |-> [base EXCEPT
                          !.classification = "target",
                          !.mappedId = t.allTargetForms[base.normalized].id],
             seenTargets |->
               seenTargets \cup
                 {t.allTargetForms[base.normalized].canonical}]
  ELSE [token |-> base, seenTargets |-> seenTargets]

\* (3) in recognition mode the recognition vocabulary is looked up before
\* the target table
classifyBaseVocabularyFirst(base, t, seenTargets, allowDistractors) ==
  IF allowDistractors /\ base.normalized \in DOMAIN t.recognitionVocabulary
  THEN [token |-> [base EXCEPT
                     !.classification =
                       IF t.recognitionVocabulary[base.normalized].isTarget
                       THEN "target" ELSE "distractor",
                     !.mappedId = t.recognitionVocabulary[base.normalized].id],
        seenTargets |-> seenTargets]
  ELSE IF base.normalized \in DOMAIN t.allTargetForms
  THEN IF t.allTargetForms[base.normalized].canonical \in seenTargets
       THEN [token |-> [base EXCEPT
                          !.classification = "repeat",
                          !.mappedId = t.allTargetForms[base.normalized].id],
             seenTargets |-> seenTargets]
       ELSE [token |-> [base EXCEPT
                          !.classification = "target",
                          !.mappedId = t.allTargetForms[base.normalized].id],
             seenTargets |->
               seenTargets \cup
                 {t.allTargetForms[base.normalized].canonical}]
  ELSE IF base.normalized \in t.distractorForms
  THEN [token |-> [base EXCEPT
                     !.classification =
                       IF allowDistractors THEN "distractor" ELSE "intrusion",
                     !.mappedId = base.normalized],
        seenTargets |-> seenTargets]
  ELSE [token |-> base, seenTargets |-> seenTargets]

\* (4) a distractor form is classified distractor in recall mode too
classifyBaseAllowing(base, t, seenTargets, allowDistractors) ==
  IF base.normalized \in DOMAIN t.allTargetForms
  THEN IF t.allTargetForms[base.normalized].canonical \in seenTargets
       THEN [token |-> [base EXCEPT
                          !.classification = "repeat",
                          !.mappedId = t.allTargetForms[base.normalized].id],
             seenTargets |-> seenTargets]
       ELSE [token |-> [base EXCEPT
                          !.classification = "target",
                          !.mappedId = t.allTargetForms[base.normalized].id],
             seenTargets |->
               seenTargets \cup
                 {t.allTargetForms[base.normalized].canonical}]
  ELSE IF base.normalized \in t.distractorForms
  THEN [token |-> [base EXCEPT !.classification = "distractor",
                               !.mappedId = base.normalized],
        seenTargets |-> seenTargets]
  ELSE [token |-> base, seenTargets |-> seenTargets]

\* (5) a target is identified by its canonical form, not by its primary
\* spelling
classifyBaseCanonicalId(base, t, seenTargets, allowDistractors) ==
  IF base.normalized \in DOMAIN t.allTargetForms
  THEN IF t.allTargetForms[base.normalized].canonical \in seenTargets
       THEN [token |-> [base EXCEPT
                          !.classification = "repeat",
                          !.mappedId =
                            t.allTargetForms[base.normalized].canonical],
             seenTargets |-> seenTargets]
       ELSE [token |-> [base EXCEPT
                          !.classification = "target",
                          !.mappedId =
                            t.allTargetForms[base.normalized].canonical],
             seenTargets |->
               seenTargets \cup
                 {t.allTargetForms[base.normalized].canonical}]
  ELSE IF allowDistractors
          /\ base.normalized \in DOMAIN t.recognitionVocabulary
  THEN [token |-> [base EXCEPT
                     !.classification =
                       IF t.recognitionVocabulary[base.normalized].isTarget
                       THEN "target" ELSE "distractor",
                     !.mappedId = t.recognitionVocabulary[base.normalized].id],
        seenTargets |-> seenTargets]
  ELSE IF allowDistractors /\ base.normalized \in t.distractorForms
  THEN [token |-> [base EXCEPT !.classification = "distractor",
                               !.mappedId = base.normalized],
        seenTargets |-> seenTargets]
  ELSE IF base.normalized \in t.distractorForms
  THEN [token |-> [base EXCEPT !.mappedId = base.normalized],
        seenTargets |-> seenTargets]
  ELSE [token |-> base, seenTargets |-> seenTargets]

\* (6) a credited target is not added to the Set of seen targets
classifyBaseForgetting(base, t, seenTargets, allowDistractors) ==
  IF base.normalized \in DOMAIN t.allTargetForms
  THEN IF t.allTargetForms[base.normalized].canonical \in seenTargets
       THEN [token |-> [base EXCEPT
                          !.classification = "repeat",
                          !.mappedId = t.allTargetForms[base.normalized].id],
             seenTargets |-> seenTargets]
       ELSE [token |-> [base EXCEPT
                          !.classification = "target",
                          !.mappedId = t.allTargetForms[base.normalized].id],
             seenTargets |-> seenTargets]
  ELSE IF allowDistractors
          /\ base.normalized \in DOMAIN t.recognitionVocabulary
  THEN [token |-> [base EXCEPT
                     !.classification =
                       IF t.recognitionVocabulary[base.normalized].isTarget
                       THEN "target" ELSE "distractor",
                     !.mappedId = t.recognitionVocabulary[base.normalized].id],
        seenTargets |-> seenTargets]
  ELSE IF allowDistractors /\ base.normalized \in t.distractorForms
  THEN [token |-> [base EXCEPT !.classification = "distractor",
                               !.mappedId = base.normalized],
        seenTargets |-> seenTargets]
  ELSE IF base.normalized \in t.distractorForms
  THEN [token |-> [base EXCEPT !.mappedId = base.normalized],
        seenTargets |-> seenTargets]
  ELSE [token |-> base, seenTargets |-> seenTargets]

\* the branches of classifyToken on the normalized form of base, read in
\* the three tables t
classifyBase(base, t, seenTargets, allowDistractors) ==
  IF base.normalized \in DOMAIN t.allTargetForms
  THEN IF t.allTargetForms[base.normalized].canonical \in seenTargets
       THEN [token |-> [base EXCEPT
                          !.classification = "repeat",
                          !.mappedId = t.allTargetForms[base.normalized].id],
             seenTargets |-> seenTargets]
       ELSE [token |-> [base EXCEPT
                          !.classification = "target",
                          !.mappedId = t.allTargetForms[base.normalized].id],
             seenTargets |->
               seenTargets \cup
                 {t.allTargetForms[base.normalized].canonical}]
  ELSE IF allowDistractors
          /\ base.normalized \in DOMAIN t.recognitionVocabulary
  THEN [token |-> [base EXCEPT
                     !.classification =
                       IF t.recognitionVocabulary[base.normalized].isTarget
                       THEN "target" ELSE "distractor",
                     !.mappedId = t.recognitionVocabulary[base.normalized].id],
        seenTargets |-> seenTargets]
  ELSE IF allowDistractors /\ base.normalized \in t.distractorForms
  THEN [token |-> [base EXCEPT !.classification = "distractor",
                               !.mappedId = base.normalized],
        seenTargets |-> seenTargets]
  ELSE IF base.normalized \in t.distractorForms
  THEN [token |-> [base EXCEPT !.mappedId = base.normalized],
        seenTargets |-> seenTargets]
  ELSE [token |-> base, seenTargets |-> seenTargets]

\* classifyToken adds to the Set it is given; the model returns the token
\* together with the Set as the call leaves it
classifyToken(token, seenTargets, allowDistractors) ==
  classifyBase(baseToken(token), LoadedTables[vocabulary], seenTargets,
               allowDistractors)

\* the token classified joins the tokens of the call; seenBefore keeps the
\* Set as classifyToken found it (history) and seen the Set as it left it
pushClassified(acc, classified) ==
  [tokens |-> Append(acc.tokens, classified.token),
   seenBefore |-> Append(acc.seenBefore, acc.seen),
   seen |-> classified.seenTargets]

\* tokenize(transcript).map((token) => classifyToken(token, seen, allow))
RECURSIVE classifyEach(_, _, _)
classifyEach(words, allowDistractors, acc) ==
  IF words = <<>> THEN acc
  ELSE classifyEach(Tail(words), allowDistractors,
         pushClassified(acc, classifyToken(Head(words), acc.seen,
                                           allowDistractors)))

\* arr.filter((id, idx, arr) => arr.indexOf(id) === idx)
firstOccurrences(arr) ==
  SelectSeq([i \in DOMAIN arr |-> [id |-> arr[i], first |->
               \A j \in 1..(i - 1) : arr[j] # arr[i]]],
            LAMBDA e : e.first)

\* fault: the identities in the order of their last occurrence, last first
dedupeReversed(arr) ==
  [k \in 1..Len(firstOccurrences(arr)) |->
     firstOccurrences(arr)[Len(firstOccurrences(arr)) + 1 - k].id]

dedupe(arr) == MapSeq(LAMBDA e : e.id, firstOccurrences(arr))

withClassification(tokens, c) ==
  SelectSeq(tokens, LAMBDA t : t.classification = c)

mappedIds(tokens) == MapSeq(LAMBDA t : t.mappedId, tokens)

\* fault: the Set starts empty whatever alreadyHit holds
seedSeenEmpty(alreadyHit) == {}

\* new Set(alreadyHit.map(normalize))
seedSeen(alreadyHit) == {normalize(alreadyHit[i]) : i \in DOMAIN alreadyHit}

classifyTranscript(transcript, alreadyHit, allowDistractors) ==
  classifyEach(tokenize(transcript), allowDistractors,
               [tokens |-> <<>>, seenBefore |-> <<>>,
                seen |-> seedSeen(alreadyHit)])

\* history: the seen Set as each token of the call found it
seenBeforeEach(transcript, alreadyHit, allowDistractors) ==
  classifyTranscript(transcript, alreadyHit, allowDistractors).seenBefore

\* the object scoreRecallUtterance returns for the classified tokens
recallResult(tokens) ==
  [tokens |-> tokens,
   hits |-> dedupe(mappedIds(withClassification(tokens, "target"))),
   intrusions |-> withClassification(tokens, "intrusion"),
   repeats |-> withClassification(tokens, "repeat")]

scoreRecallUtterance(transcript, alreadyHit) ==
  recallResult(classifyTranscript(transcript, alreadyHit, FALSE).tokens)

\* fault: distractor mentions folded into intrusions, as in recall
recognitionResultFolded(tokens) ==
  [tokens |-> tokens,
   hits |-> dedupe(mappedIds(withClassification(tokens, "target"))),
   distractorHits |-> <<>>,
   intrusions |-> SelectSeq(tokens, LAMBDA t :
                    t.classification \in {"intrusion", "distractor"}),
   repeats |-> withClassification(tokens, "repeat")]

\* the object scoreRecognitionUtterance returns for the classified tokens
recognitionResult(tokens) ==
  [tokens |-> tokens,
   hits |-> dedupe(mappedIds(withClassification(tokens, "target"))),
   distractorHits |-> withClassification(tokens, "distractor"),
   intrusions |-> withClassification(tokens, "intrusion"),
   repeats |-> withClassification(tokens, "repeat")]

scoreRecognitionUtterance(transcript, alreadyHit) ==
  recognitionResult(classifyTranscript(transcript, alreadyHit, TRUE).tokens)

(***************************************************************************)
(* scoreFluencyUtterance with multi-word animal names                      *)
(***************************************************************************)
\* The Set objects a caller can pass as validAnimals, by reference.  The
\* entries of MULTI_WORD are an input of the function, not shipped data.
AnimalSets ==
  [ANIMAL_LIST |-> ANIMAL_LIST,
   MULTI_WORD |->
     { <<"m","i","c","o"," ","l","e","a+0303","o"," ","d","o","u","r","a","d","o">>,
       <<"l","e","a+0303","o"," ","d","o","u","r","a","d","o"," ","m","i","c","o">>,
       <<"l","e","a+0303","o"," ","d","o","u","r","a","d","o">>,
       <<"d","o","u","r","a","d","o"," ","g","a","t","o">>,
       <<"l","e","a+0303","o">>,
       <<"G","a","t","o">> }]

\* fault: the entries are added to the lookup Set as they are stored
normalizedEntriesVerbatim ==
  [ANIMAL_LIST |-> AnimalSets.ANIMAL_LIST,
   MULTI_WORD |-> AnimalSets.MULTI_WORD]

\* for (const animal of validAnimals) add(normalize(animal)), per Set object
normalizedEntries ==
  [ANIMAL_LIST |-> {normalize(a) : a \in AnimalSets.ANIMAL_LIST},
   MULTI_WORD |-> {normalize(a) : a \in AnimalSets.MULTI_WORD}]

\* no caller has called validAnimals.add on a dictionary object
NothingAdded == [validAnimals \in DOMAIN AnimalSets |-> {}]

\* the lookup Set of the call and the cache as the call leaves it; the loop
\* visits the entries the object holds when it runs
getNormalizedAnimals(validAnimals) ==
  IF cachedAnimalSource # validAnimals \/ cachedAnimalSource = "null"
  THEN [animals |-> normalizedEntries[validAnimals]
                      \cup {normalize(animal) :
                              animal \in addedAnimals[validAnimals]},
        source |-> validAnimals]
  ELSE [animals |-> cachedNormalizedAnimals, source |-> cachedAnimalSource]

\* fault: every phrase of the dictionary is credited, produced before or not
creditPhraseUnseen(st, raw, normalized, start, n) ==
  [st EXCEPT
     !.seen = @ \cup {normalized},
     !.animals = Append(@, normalized),
     !.tokens = Append(@, [raw |-> raw, normalized |-> normalized,
                           classification |-> "target",
                           mappedId |-> normalized]),
     !.consumed = @ \cup (start..(start + n - 1)),
     !.matches = Append(@, [start |-> start, n |-> n, phrase |-> normalized,
                            list |-> "animals"])]

\* the record pushed for a phrase found in the dictionary: its words are
\* words[start .. start + n - 1]; matches lists, in the order of the pushes,
\* the word positions and the canonical phrase of each pushed record
\* (history)
creditPhrase(st, raw, normalized, start, n) ==
  IF normalized \in st.seen
  THEN [st EXCEPT
          !.repeats = Append(@, [raw |-> raw, normalized |-> normalized,
                                 classification |-> "repeat",
                                 mappedId |-> normalized]),
          !.consumed = @ \cup (start..(start + n - 1)),
          !.matches = Append(@, [start |-> start, n |-> n,
                                 phrase |-> normalized,
                                 list |-> "repeats"])]
  ELSE [st EXCEPT
          !.seen = @ \cup {normalized},
          !.animals = Append(@, normalized),
          !.tokens = Append(@, [raw |-> raw, normalized |-> normalized,
                                classification |-> "target",
                                mappedId |-> normalized]),
          !.consumed = @ \cup (start..(start + n - 1)),
          !.matches = Append(@, [start |-> start, n |-> n,
                                 phrase |-> normalized,
                                 list |-> "animals"])]

\* if (normalizedLookup.has(phrase)) { ... } of the trigram and bigram loops
creditIfKnown(st, lookup, raw, normalized, start, n) ==
  IF normalized \in lookup THEN creditPhrase(st, raw, normalized, start, n)
  ELSE st

\* the body of the unigram loop for the unconsumed word at position i
creditOrInvalid(st, lookup, raw, norm, i) ==
  IF norm \in lookup THEN creditPhrase(st, raw, norm, i, 1)
  ELSE [st EXCEPT
          !.invalid = Append(@, [raw |-> raw, normalized |-> norm,
                                 classification |-> "intrusion",
                                 mappedId |-> Undefined]),
          !.tokens = Append(@, [raw |-> raw, normalized |-> norm,
                                classification |-> "intrusion",
                                mappedId |-> Undefined]),
          !.consumed = @ \cup {i},
          !.matches = Append(@, [start |-> i, n |-> 1, phrase |-> norm,
                                 list |-> "invalid"])]

\* `${words[i]} ${words[i + 1]} ${words[i + 2]}`
trigramAt(words, i) ==
  words[i] \o <<" ">> \o words[i + 1] \o <<" ">> \o words[i + 2]

\* `${words[i]} ${words[i + 1]}`
bigramAt(words, i) == words[i] \o <<" ">> \o words[i + 1]

\* fault: no trigram pass
trigramPassSkipped(words, lookup, i, st) == st

\* for (let i = 0; i < words.length - 2; i++), positions counted from 1
RECURSIVE trigramPass(_, _, _, _)
trigramPass(words, lookup, i, st) ==
  IF i > Len(words) - 2 THEN st
  ELSE trigramPass(words, lookup, i + 1,
         IF {i, i + 1, i + 2} \cap st.consumed # {} THEN st
         ELSE creditIfKnown(st, lookup, trigramAt(words, i),
                            normalize(trigramAt(words, i)), i, 3))

\* for (let i = 0; i < words.length - 1; i++)
RECURSIVE bigramPass(_, _, _, _)
bigramPass(words, lookup, i, st) ==
  IF i > Len(words) - 1 THEN st
  ELSE bigramPass(words, lookup, i + 1,
         IF {i, i + 1} \cap st.consumed # {} THEN st
         ELSE creditIfKnown(st, lookup, bigramAt(words, i),
                            normalize(bigramAt(words, i)), i, 2))

\* fault: the unigram loop does not skip the consumed positions
RECURSIVE unigramPassAll(_, _, _, _)
unigramPassAll(words, lookup, i, st) ==
  IF i > Len(words) THEN st
  ELSE unigramPassAll(words, lookup, i + 1,
         creditOrInvalid(st, lookup, words[i], normalize(words[i]), i))

\* for (let i = 0; i < words.length; i++)
RECURSIVE unigramPass(_, _, _, _)
unigramPass(words, lookup, i, st) ==
  IF i > Len(words) THEN st
  ELSE unigramPass(words, lookup, i + 1,
         IF i \in st.consumed THEN st
         ELSE creditOrInvalid(st, lookup, words[i], normalize(words[i]), i))

\* the three passes over the words, from the locals as the function sets
\* them up
threePasses(words, lookup, st) ==
  unigramPass(words, lookup, 1,
    bigramPass(words, lookup, 1, trigramPass(words, lookup, 1, st)))

\* the locals of scoreFluencyUtterance when it returns
runFluency(transcript, validAnimals, alreadyProduced) ==
  threePasses(tokenize(transcript), getNormalizedAnimals(validAnimals).animals,
              [seen |-> seedSeen(alreadyProduced), tokens |-> <<>>,
               animals |-> <<>>, invalid |-> <<>>, repeats |-> <<>>,
               consumed |-> {}, matches |-> <<>>])

\* return { tokens, animals, invalid, repeats }
fluencyResult(st) ==
  [tokens |-> st.tokens, animals |-> st.animals,
   invalid |-> st.invalid, repeats |-> st.repeats]

scoreFluencyUtterance(transcript, validAnimals, alreadyProduced) ==
  fluencyResult(runFluency(transcript, validAnimals, alreadyProduced))

(***************************************************************************)
(* Bounds of the model and the inputs drawn within them                    *)
(***************************************************************************)
\* words of one scorer call on a recall or recognition transcript
MaxRecallWords == 3
\* words of one scorer call on a fluency transcript
MaxFluencyWords == 4
\* entries of the alreadyHit / alreadyProduced list of one scorer call
MaxAlready == 1
\* final transcripts dispatched in one test session
MaxUtterances == 2
\* words of one final transcript dispatched to the reducer
MaxSpeechWords == 2

RECURSIVE SeqsUpTo(_, _)
SeqsUpTo(S, n) ==
  IF n = 0 THEN {<<>>}
  ELSE LET shorter == SeqsUpTo(S, n - 1)
       IN  shorter \cup {Append(s, x) : s \in {p \in shorter : Len(p) = n - 1},
                                        x \in S}

\* lists without repetition
ListsUpTo(S, n) ==
  {s \in SeqsUpTo(S, n) : \A i, j \in DOMAIN s : i # j => s[i] # s[j]}

\* spoken words: primary forms, synonyms, accent and case variants (the
\* last one with a combining mark), distractors, a recognition synonym and
\* a word of no table
RecallLexicon ==
  { <<"s","a","p","a","t","o">>, <<"s","a","p","a","t","o","s">>,
    <<"a","v","i","a+0303","o">>, <<"A","v","i","a","o">>,
    <<"a","+0301","r","v","o","r","e">>,
    <<"c","a","m","i","n","h","a+0303","o">>, <<"b","a","r","c","o">>,
    <<"p","e","d","r","a">> }

FluencyLexicon ==
  { <<"m","i","c","o">>, <<"l","e","a+0303","o">>,
    <<"d","o","u","r","a","d","o">>, <<"g","a","t","o">>,
    <<"p","e","d","r","a">> }

\* a transcript of the given words: a comma and a space after the first,
\* third, ... word, a space after the others
RECURSIVE say(_, _)
say(words, k) ==
  IF words = <<>> THEN <<>>
  ELSE IF Len(words) = 1 THEN words[1]
  ELSE words[1] \o (IF k % 2 = 1 THEN <<",", " ">> ELSE <<" ">>)
       \o say(Tail(words), k + 1)

Transcripts(lexicon, maxWords) ==
  {say(ws, 1) : ws \in SeqsUpTo(lexicon, maxWords)}

RecallTranscripts == Transcripts(RecallLexicon, MaxRecallWords)
FluencyTranscripts == Transcripts(FluencyLexicon, MaxFluencyWords)

\* alreadyHit: target identities, as the reducer passes them
AlreadyHitLists ==
  ListsUpTo({TARGET_WORDS[1], TARGET_WORDS[9]}, MaxAlready)

\* alreadyProduced: canonical animal forms, as the reducer passes them
AlreadyProducedLists ==
  ListsUpTo({ <<"g","a","t","o">>,
              <<"m","i","c","o"," ","l","e","a","o"," ","d","o","u","r","a","d","o">> },
            MaxAlready)

NoAnimals == "none"

ScorerCalls ==
  [fn : {"scoreRecallUtterance", "scoreRecognitionUtterance"},
   transcript : RecallTranscripts, already : AlreadyHitLists,
   validAnimals : {NoAnimals}]
  \cup
  [fn : {"scoreFluencyUtterance"}, transcript : FluencyTranscripts,
   already : AlreadyProducedLists, validAnimals : DOMAIN AnimalSets]

NoCall == [fn |-> "none", transcript |-> <<>>, already |-> <<>>,
           validAnimals |-> NoAnimals]
NoResult == [tokens |-> <<>>]
NoTrace == <<>>

(***************************************************************************)
(* types.ts: the state the reducer starts from                             *)
(***************************************************************************)
INITIAL_SCORES ==
  [naming |-> 0, incidentalMemory |-> 0, immediateMemory |-> 0,
   learning |-> 0, verbalFluency |-> 0, clockDrawing |-> 0,
   delayedMemory |-> 0, recognition |-> 0]

EMPTY_CAPTURE == [tokens |-> <<>>, intrusions |-> <<>>, repeats |-> <<>>]

INITIAL_STATE ==
  /\ stage = "DASHBOARD"
  /\ currentPatientId = "null"
  /\ scores = INITIAL_SCORES
  /\ verbalFluencyList = <<>>
  /\ currentStageFoundWords = <<>>
  /\ currentStageResponses = EMPTY_CAPTURE
  /\ clockImageBase64 = "null"
  /\ timeStartedDelayed = "null"
  /\ elapsed = 0
  /\ spoken = 0

\* localStorage.getItem(STORAGE_KEY) is null
NoItem == [item |-> "null", text |-> <<>>]

\* scores.clockDrawing as INITIAL_SCORES holds it (history)
NoSource == [by |-> "none", drawing |-> 0]

\* no recognizer result handed to onResult in this step (history)
NoEvent == [transcript |-> <<>>, isFinal |-> FALSE, heard |-> FALSE]

\* App.tsx, VoiceRecorder.tsx: the state of the components when App is
\* first rendered, on the DASHBOARD stage; the state of a screen that is
\* not rendered is kept at its initial value; the dictionary objects hold
\* the entries constants.ts created them with
AppMounted ==
  /\ addedAnimals = NothingAdded
  /\ localStorage = NoItem
  /\ isMicGlobalActive = FALSE
  /\ liveTranscript = <<>>
  /\ clearTimers = 0
  /\ recognitionRef = "null"
  /\ restartTimer = FALSE
  /\ stoppedSession = FALSE
  /\ micVerified = FALSE
  /\ phaseMode = "none"
  /\ timeLeft = 0
  /\ remainingDelay = 0
  /\ isActive = FALSE
  /\ interrupted = "null"
  /\ manualScore = 5
  /\ isAnalyzing = FALSE
  /\ pendingAnalysis = {}
  /\ savedDrawings = 0
  /\ scoreSource = NoSource
  /\ delivered = NoEvent

(***************************************************************************)
(* The scorers called as pure functions, one call per behaviour            *)
(***************************************************************************)
\* fault: the hits are pushed onto the alreadyHit array of the caller
CallRecallPushingHits ==
  /\ pc = "call"
  /\ args.fn = "scoreRecallUtterance"
  /\ result' = scoreRecallUtterance(args.transcript, args.already)
  /\ trace' = seenBeforeEach(args.transcript, args.already, FALSE)
  /\ pc' = "done"
  /\ args' = [args EXCEPT !.already =
                 @ \o scoreRecallUtterance(args.transcript, args.already).hits]
  /\ UNCHANGED <<tables, cache, app, ui>>

CallRecall ==
  /\ pc = "call"
  /\ args.fn = "scoreRecallUtterance"
  /\ result' = scoreRecallUtterance(args.transcript, args.already)
  /\ trace' = seenBeforeEach(args.transcript, args.already, FALSE)
  /\ pc' = "done"
  /\ UNCHANGED <<args, tables, cache, app, ui>>

CallRecognition ==
  /\ pc = "call"
  /\ args.fn = "scoreRecognitionUtterance"
  /\ result' = scoreRecognitionUtterance(args.transcript, args.already)
  /\ trace' = seenBeforeEach(args.transcript, args.already, TRUE)
  /\ pc' = "done"
  /\ UNCHANGED <<args, tables, cache, app, ui>>

CallFluency ==
  /\ pc = "call"
  /\ args.fn = "scoreFluencyUtterance"
  /\ result' = scoreFluencyUtterance(args.transcript, args.validAnimals,
                                     args.already)
  /\ trace' = runFluency(args.transcript, args.validAnimals,
                         args.already).matches
  /\ cachedAnimalSource' = getNormalizedAnimals(args.validAnimals).source
  /\ cachedNormalizedAnimals' = getNormalizedAnimals(args.validAnimals).animals
  /\ pc' = "done"
  /\ UNCHANGED <<args, tables, app, ui>>

InitScore ==
  /\ ModuleLoaded("SHIPPED")
  /\ INITIAL_STATE
  /\ AppMounted
  /\ pc = "call"
  /\ args \in ScorerCalls
  /\ result = NoResult
  /\ trace = NoTrace

NextScore == CallRecall \/ CallRecognition \/ CallFluency

SpecScore == InitScore /\ [][NextScore]_vars

(***************************************************************************)
(* normalize called on a text, and again on what it returned               *)
(***************************************************************************)
\* characters of one text
MaxTextLen == 3

\* letters in both cases, precomposed and bare, a combining mark on its own,
\* and white space
TextAlphabet ==
  {"a", "A", "a+0303", "A+0303", "c+0327", "+0303", "+0301", " ", "\t"}

Texts == SeqsUpTo(TextAlphabet, MaxTextLen)

CallNormalize ==
  /\ pc = "call"
  /\ args.fn = "normalize"
  /\ result' = normalize(args.transcript)
  /\ pc' = "done"
  /\ UNCHANGED <<args, trace, tables, cache, app, ui>>

CallNormalizeAgain ==
  /\ pc = "done"
  /\ args.fn = "normalize"
  /\ trace' = normalize(result)
  /\ pc' = "again"
  /\ UNCHANGED <<args, result, tables, cache, app, ui>>

InitText ==
  /\ ModuleLoaded("SHIPPED")
  /\ INITIAL_STATE
  /\ AppMounted
  /\ pc = "call"
  /\ args \in [fn : {"normalize"}, transcript : Texts, already : {<<>>},
               validAnimals : {NoAnimals}]
  /\ result = NoResult
  /\ trace = NoTrace

NextText == CallNormalize \/ CallNormalizeAgain

SpecText == InitText /\ [][NextText]_vars

(***************************************************************************)
(* scoreFluencyUtterance called again and again, with dictionary objects   *)
(* the caller may add entries to between the calls                         *)
(***************************************************************************)
\* words of one transcript of these calls
MaxCacheWords == 1

\* the entries a caller adds to a dictionary object
AddedEntries == { <<"p","e","d","r","a">>, <<"M","i","c","o">> }

CacheCalls ==
  [fn : {"scoreFluencyUtterance"},
   transcript : Transcripts(FluencyLexicon, MaxCacheWords),
   already : {<<>>}, validAnimals : DOMAIN AnimalSets]

\* validAnimals.add(animal), by the owner of the Set object
addAnimal(validAnimals, animal) ==
  /\ addedAnimals' = [addedAnimals EXCEPT ![validAnimals] = @ \cup {animal}]
  /\ UNCHANGED <<vocabulary, localStorage, cache, app, call, ui>>

\* the caller prepares its next call
callAgain ==
  /\ pc = "done"
  /\ args' \in CacheCalls
  /\ pc' = "call"
  /\ result' = NoResult
  /\ trace' = NoTrace
  /\ UNCHANGED <<tables, cache, app, ui>>

InitCache ==
  /\ ModuleLoaded("SHIPPED")
  /\ INITIAL_STATE
  /\ AppMounted
  /\ pc = "call"
  /\ args \in CacheCalls
  /\ result = NoResult
  /\ trace = NoTrace

NextCache ==
  \/ CallFluency
  \/ callAgain
  \/ \E validAnimals \in DOMAIN AnimalSets, animal \in AddedEntries :
       addAnimal(validAnimals, animal)

SpecCache == InitCache /\ [][NextCache]_vars

(***************************************************************************)
(* The recall and recognition scorers called on each form registered for   *)
(* a target, with nothing already hit                                      *)
(***************************************************************************)
\* the primary word and the synonyms of each target, as constants.ts
\* spells them
RegisteredForms ==
  {[form |-> TARGET_WORDS[i], target |-> TARGET_WORDS[i]] :
     i \in DOMAIN TARGET_WORDS}
  \cup UNION {{[form |-> TARGET_SYNONYMS[target][j], target |-> target] :
                 j \in DOMAIN TARGET_SYNONYMS[target]} :
              target \in DOMAIN TARGET_SYNONYMS}

FormCalls ==
  [fn : {"scoreRecallUtterance", "scoreRecognitionUtterance"},
   transcript : {f.form : f \in RegisteredForms}, already : {<<>>},
   validAnimals : {NoAnimals}]

InitForms ==
  /\ ModuleLoaded("SHIPPED")
  /\ INITIAL_STATE
  /\ AppMounted
  /\ pc = "call"
  /\ args \in FormCalls
  /\ result = NoResult
  /\ trace = NoTrace

NextForms == CallRecall \/ CallRecognition

SpecForms == InitForms /\ [][NextForms]_vars

(***************************************************************************)
(* The scorers called under a configuration with colliding forms           *)
(***************************************************************************)
\* words of one scorer call under the colliding configuration
MaxVocabWords == 2

VocabLexicon ==
  { <<"l","a","r">>, <<"A","v","i","a+0303","o">>,
    <<"m","o","r","a","d","i","a">>, <<"c","a","r","r","o">>,
    <<"c","a","s","a">> }

VocabCalls ==
  [fn : {"scoreRecallUtterance", "scoreRecognitionUtterance"},
   transcript : Transcripts(VocabLexicon, MaxVocabWords),
   already : ListsUpTo({Vocabularies.COLLIDING.TARGET_WORDS[1]}, MaxAlready),
   validAnimals : {NoAnimals}]

InitVocab ==
  /\ ModuleLoaded("COLLIDING")
  /\ INITIAL_STATE
  /\ AppMounted
  /\ pc = "call"
  /\ args \in VocabCalls
  /\ result = NoResult
  /\ trace = NoTrace

NextVocab == CallRecall \/ CallRecognition

SpecVocab == InitVocab /\ [][NextVocab]_vars

(***************************************************************************)
(* The reducer of App.tsx                                                  *)
(***************************************************************************)
MemoryPhases ==
  {"NAMING", "INCIDENTAL_MEMORY", "IMMEDIATE_MEMORY", "LEARNING",
   "DELAYED_MEMORY"}

\* the stage each screen hands to SET_VIEW
SetViewPayloads ==
  [DASHBOARD |-> {"REGISTRATION", "DASHBOARD"},
   PATIENT_DETAIL |-> {},
   REGISTRATION |-> {"DASHBOARD"},
   PRE_TEST_CHECK |-> {},
   NAMING |-> {"INCIDENTAL_MEMORY"},
   INCIDENTAL_MEMORY |-> {"IMMEDIATE_MEMORY"},
   IMMEDIATE_MEMORY |-> {"LEARNING"},
   LEARNING |-> {"VERBAL_FLUENCY"},
   VERBAL_FLUENCY |-> {"CLOCK_DRAWING"},
   CLOCK_DRAWING |-> {"DELAYED_MEMORY"},
   DELAYED_MEMORY |-> {"RECOGNITION"},
   RECOGNITION |-> {"POST_TEST_CHECK"},
   POST_TEST_CHECK |-> {},
   RESULTS |-> {"DASHBOARD"}]

TestStage == DOMAIN SetViewPayloads

Patients == {"p1"}

\* what the recognizer hears: object names in primary, synonym and accent
\* or case variants, a distractor, a recognition synonym, animal names
SpeechLexicon ==
  { <<"s","a","p","a","t","o">>, <<"s","a","p","a","t","o","s">>,
    <<"A","v","i","a","o">>, <<"c","a","m","i","n","h","a+0303","o">>,
    <<"b","a","r","c","o">>, <<"g","a","t","o">>,
    <<"L","e","a+0303","o">> }

\* transcripts without a word: nothing, white space, separators
BlankTranscripts ==
  { <<>>, <<" ">>, <<",", " ">>, <<" ", ".", ";", "!", "?", "\t">> }

SpeechTranscripts ==
  Transcripts(SpeechLexicon, MaxSpeechWords) \cup BlankTranscripts

\* a step of the reducer that calls no scorer (history)
NoScorerCalled ==
  /\ pc' = pc
  /\ args' = NoCall
  /\ result' = NoResult
  /\ trace' = NoTrace

\* Variant of SET_VIEW: the found words of the phase that ends are kept
SET_VIEWKeepingFoundWords(payload) ==
  /\ payload \in SetViewPayloads[stage]
  /\ stage' = payload
  /\ currentStageResponses' = EMPTY_CAPTURE
  /\ verbalFluencyList' = <<>>
  /\ NoScorerCalled
  /\ UNCHANGED <<currentStageFoundWords, scores, currentPatientId,
                 clockImageBase64, spoken, tables, cache>>

SET_VIEW(payload) ==
  /\ payload \in SetViewPayloads[stage]
  /\ stage' = payload
  /\ currentStageFoundWords' = <<>>
  /\ currentStageResponses' = EMPTY_CAPTURE
  /\ verbalFluencyList' = <<>>
  /\ NoScorerCalled
  /\ UNCHANGED <<scores, currentPatientId, clockImageBase64, spoken,
                 tables, cache>>

\* Variant of START_TEST_SETUP: the scores of the state are kept
START_TEST_SETUPKeepingScores(payload) ==
  /\ stage \in {"REGISTRATION", "DASHBOARD"}
  /\ stage' = "PRE_TEST_CHECK"
  /\ currentPatientId' = payload
  /\ verbalFluencyList' = <<>>
  /\ currentStageFoundWords' = <<>>
  /\ currentStageResponses' = EMPTY_CAPTURE
  /\ clockImageBase64' = "null"
  /\ spoken' = 0
  /\ NoScorerCalled
  /\ UNCHANGED <<scores, tables, cache>>

\* a new session: the model counts its final transcripts from 0 again
START_TEST_SETUP(payload) ==
  /\ stage \in {"REGISTRATION", "DASHBOARD"}
  /\ stage' = "PRE_TEST_CHECK"
  /\ currentPatientId' = payload
  /\ scores' = INITIAL_SCORES
  /\ verbalFluencyList' = <<>>
  /\ currentStageFoundWords' = <<>>
  /\ currentStageResponses' = EMPTY_CAPTURE
  /\ clockImageBase64' = "null"
  /\ spoken' = 0
  /\ NoScorerCalled
  /\ UNCHANGED <<tables, cache>>

START_ACTUAL_TEST ==
  /\ stage = "PRE_TEST_CHECK"
  /\ stage' = "NAMING"
  /\ NoScorerCalled
  /\ UNCHANGED <<currentStageFoundWords, verbalFluencyList,
                 currentStageResponses, scores, currentPatientId,
                 clockImageBase64, spoken, tables, cache>>

FINISH_TEST ==
  /\ stage = "POST_TEST_CHECK"
  /\ stage' = "RESULTS"
  /\ NoScorerCalled
  /\ UNCHANGED <<currentStageFoundWords, verbalFluencyList,
                 currentStageResponses, scores, currentPatientId,
                 clockImageBase64, spoken, tables, cache>>

UPDATE_SCORE(key, value) ==
  /\ scores' = [scores EXCEPT ![key] = value]
  /\ NoScorerCalled
  /\ UNCHANGED <<stage, currentStageFoundWords, verbalFluencyList,
                 currentStageResponses, currentPatientId, clockImageBase64,
                 spoken, tables, cache>>

SET_CLOCK_IMAGE(payload) ==
  /\ clockImageBase64' = payload
  /\ NoScorerCalled
  /\ UNCHANGED <<stage, currentStageFoundWords, verbalFluencyList,
                 currentStageResponses, scores, currentPatientId, spoken,
                 tables, cache>>

\* Array.from(new Set(arr)): the elements in the order of their first
\* occurrence
ArrayFromSet(arr) ==
  MapSeq(LAMBDA e : e.id, firstOccurrences(arr))

extendCapture(incoming) ==
  [tokens |-> currentStageResponses.tokens \o incoming.tokens,
   intrusions |-> currentStageResponses.intrusions \o incoming.intrusions,
   repeats |-> currentStageResponses.repeats \o incoming.repeats]

\* Variant of scoreKey: every memory stage writes the naming score
scoreKeyNamingOnly ==
  [NAMING |-> "naming", INCIDENTAL_MEMORY |-> "naming",
   IMMEDIATE_MEMORY |-> "naming", LEARNING |-> "naming",
   DELAYED_MEMORY |-> "naming", RECOGNITION |-> "recognition"]

scoreKey ==
  [NAMING |-> "naming", INCIDENTAL_MEMORY |-> "incidentalMemory",
   IMMEDIATE_MEMORY |-> "immediateMemory", LEARNING |-> "learning",
   DELAYED_MEMORY |-> "delayedMemory", RECOGNITION |-> "recognition"]

\* Variant of mergeHits: the score counts the hits of the utterance only
mergeHitsOfUtterance(scored, mergedHits, incoming, key) ==
  /\ currentStageFoundWords' = mergedHits
  /\ currentStageResponses' = extendCapture(incoming)
  /\ scores' = [scores EXCEPT ![key] = Len(scored.hits)]
  /\ result' = scored

\* newState after the memory-phase branch (key is the scoreKey of the
\* stage) and after the RECOGNITION branch (key is 'recognition'), given
\* what the scorer returned and the capture the branch extends with
mergeHits(scored, mergedHits, incoming, key) ==
  /\ currentStageFoundWords' = mergedHits
  /\ currentStageResponses' = extendCapture(incoming)
  /\ scores' = [scores EXCEPT ![key] = Len(mergedHits)]
  /\ result' = scored

\* Variant of creditRecall: the hits of the utterance replace the list
creditRecallReplacing(scored) ==
  mergeHits(scored, scored.hits,
            [tokens |-> scored.tokens, intrusions |-> scored.intrusions,
             repeats |-> scored.repeats],
            scoreKey[stage])

creditRecall(scored) ==
  mergeHits(scored, ArrayFromSet(currentStageFoundWords \o scored.hits),
            [tokens |-> scored.tokens, intrusions |-> scored.intrusions,
             repeats |-> scored.repeats],
            scoreKey[stage])

\* Variant of creditRecognition: the distractor hits are left out of the
\* capture
creditRecognitionWithoutDistractors(scored) ==
  mergeHits(scored, ArrayFromSet(currentStageFoundWords \o scored.hits),
            [tokens |-> scored.tokens, intrusions |-> scored.intrusions,
             repeats |-> scored.repeats],
            "recognition")

creditRecognition(scored) ==
  mergeHits(scored, ArrayFromSet(currentStageFoundWords \o scored.hits),
            [tokens |-> scored.tokens,
             intrusions |-> scored.intrusions \o scored.distractorHits,
             repeats |-> scored.repeats],
            "recognition")

\* newState after the VERBAL_FLUENCY branch
mergeAnimals(scored, merged) ==
  /\ verbalFluencyList' = merged
  /\ currentStageResponses' =
       extendCapture([tokens |-> scored.tokens, intrusions |-> scored.invalid,
                      repeats |-> scored.repeats])
  /\ scores' = [scores EXCEPT !.verbalFluency = Len(merged)]
  /\ result' = scored

creditFluency(scored) ==
  mergeAnimals(scored, ArrayFromSet(verbalFluencyList \o scored.animals))

\* the call the branch makes (history)
called(fn, rawText, already, validAnimals) ==
  args' = [fn |-> fn, transcript |-> rawText, already |-> already,
           validAnimals |-> validAnimals]

PROCESS_SPEECH(rawText) ==
  /\ spoken < MaxUtterances
  /\ spoken' = spoken + 1
  /\ pc' = pc
  /\ UNCHANGED <<stage, currentPatientId, clockImageBase64, tables>>
  /\ IF stage \in MemoryPhases
     THEN /\ creditRecall(scoreRecallUtterance(rawText,
                                               currentStageFoundWords))
          /\ called("scoreRecallUtterance", rawText, currentStageFoundWords,
                    NoAnimals)
          /\ trace' = seenBeforeEach(rawText, currentStageFoundWords, FALSE)
          /\ UNCHANGED <<verbalFluencyList, cache>>
     ELSE IF stage = "VERBAL_FLUENCY"
     THEN /\ creditFluency(
               scoreFluencyUtterance(rawText, "ANIMAL_LIST",
                                     MapSeq(normalize, verbalFluencyList)))
          /\ called("scoreFluencyUtterance", rawText,
                    MapSeq(normalize, verbalFluencyList), "ANIMAL_LIST")
          /\ trace' = runFluency(rawText, "ANIMAL_LIST",
                        MapSeq(normalize, verbalFluencyList)).matches
          /\ cachedAnimalSource' =
               getNormalizedAnimals("ANIMAL_LIST").source
          /\ cachedNormalizedAnimals' =
               getNormalizedAnimals("ANIMAL_LIST").animals
          /\ UNCHANGED currentStageFoundWords
     ELSE IF stage = "RECOGNITION"
     THEN /\ creditRecognition(
               scoreRecognitionUtterance(rawText, currentStageFoundWords))
          /\ called("scoreRecognitionUtterance", rawText,
                    currentStageFoundWords, NoAnimals)
          /\ trace' = seenBeforeEach(rawText, currentStageFoundWords, TRUE)
          /\ UNCHANGED <<verbalFluencyList, cache>>
     ELSE /\ args' = NoCall
          /\ result' = NoResult
          /\ trace' = NoTrace
          /\ UNCHANGED <<currentStageFoundWords, verbalFluencyList,
                         currentStageResponses, scores, cache>>

Init ==
  /\ ModuleLoaded("SHIPPED")
  /\ INITIAL_STATE
  /\ AppMounted
  /\ pc = "reducer"
  /\ args = NoCall
  /\ result = NoResult
  /\ trace = NoTrace

\* the reducer driven by any dispatch: the screens stay as they are
Next ==
  \/ \E payload \in TestStage : SET_VIEW(payload) /\ UNCHANGED ui
  \/ \E payload \in Patients : START_TEST_SETUP(payload) /\ UNCHANGED ui
  \/ START_ACTUAL_TEST /\ UNCHANGED ui
  \/ FINISH_TEST /\ UNCHANGED ui
  \/ \E rawText \in SpeechTranscripts :
        PROCESS_SPEECH(rawText) /\ UNCHANGED ui

Spec == Init /\ [][Next]_vars

(***************************************************************************)
(* The screens of App.tsx and the VoiceRecorder component                  *)
(*                                                                         *)
(* A handler is one action together with the renders and effects it        *)
(* causes.  Timers count in ticks: a countdown of MemoryPhase starts at    *)
(* StudyTicks, the countdown of FluencyPhase at FluencyTicks, and the      *)
(* mandatory interval before delayed recall is minDelayTicks clock ticks   *)
(* long.  The clock is read only as Date.now() - delayStart, which the     *)
(* model keeps as elapsed, up to minDelayTicks.                            *)
(***************************************************************************)
\* ticks of the 30 s study countdown of MemoryPhase
StudyTicks == 1
\* ticks of the 60 s countdown of FluencyPhase
FluencyTicks == 2
\* clock ticks of the 5 minute interval (minDelayMs) of MemoryPhase
minDelayTicks == 2

\* what the recognizer hears in a session with the screens
HeardLexicon == { <<"s","a","p","a","t","o">>, <<"g","a","t","o">> }

HeardTranscripts == Transcripts(HeardLexicon, 1) \ {<<>>}

TimedStudyStages == {"IMMEDIATE_MEMORY", "LEARNING"}

\* the nextStage prop of each MemoryPhase
nextStage ==
  [NAMING |-> "INCIDENTAL_MEMORY", INCIDENTAL_MEMORY |-> "IMMEDIATE_MEMORY",
   IMMEDIATE_MEMORY |-> "LEARNING", LEARNING |-> "VERBAL_FLUENCY",
   DELAYED_MEMORY |-> "RECOGNITION"]

\* reducer: case 'START_DELAY_TIMER'
START_DELAY_TIMER ==
  /\ timeStartedDelayed' = "set"
  /\ elapsed' = 0

\* VoiceRecorder: the effect of [isListening] after setIsMicGlobalActive;
\* m is [mic, ref, stopped], the values of isMicGlobalActive, recognitionRef
\* and stoppedSession.  startRecognition leaves a running recognition as it
\* is; stopRecognition unbinds onend and calls stop() on the running
\* recognition, which keeps its onresult handler until it has ended
setMicActive(m, active) ==
  IF active = m.mic THEN m
  ELSE IF active THEN [m EXCEPT !.mic = TRUE, !.ref = "recognition"]
  ELSE [mic |-> FALSE, ref |-> "null",
        stopped |-> (m.stopped \/ m.ref = "recognition")]

microphone ==
  [mic |-> isMicGlobalActive, ref |-> recognitionRef,
   stopped |-> stoppedSession]

setRecorder(m) ==
  /\ isMicGlobalActive' = m.mic
  /\ recognitionRef' = m.ref
  /\ stoppedSession' = m.stopped

\* MemoryPhase: initialMode
initialMode(s) ==
  IF s \in TimedStudyStages THEN "MEMORIZE"
  ELSE IF s = "NAMING" THEN "NAMING_ACTIVE"
  ELSE IF s \in MemoryPhases THEN "RECALL"
  ELSE "none"

\* MemoryPhase: enforceDelay
enforceDelay(s, delayStart, el) ==
  IF s = "DELAYED_MEMORY" /\ delayStart # "null"
  THEN IF minDelayTicks - el > 0 THEN minDelayTicks - el ELSE 0
  ELSE 0

\* MemoryPhase: the mic control effect
micControl(m, s, mode, remaining) ==
  IF mode = "MEMORIZE" \/ (s = "DELAYED_MEMORY" /\ remaining > 0)
  THEN setMicActive(m, FALSE)
  ELSE setMicActive(m, TRUE)

\* the microphone after the effects of the screen of stage s have run on
\* mount: MemoryPhase runs its mic control effect with remainingDelay = 0
\* and again once enforceDelay has changed it
micOnMount(m, s, remaining) ==
  IF s \in MemoryPhases
  THEN IF remaining # 0
       THEN micControl(micControl(m, s, initialMode(s), 0), s,
                       initialMode(s), remaining)
       ELSE micControl(m, s, initialMode(s), 0)
  ELSE IF s \in {"VERBAL_FLUENCY", "RECOGNITION"} THEN setMicActive(m, TRUE)
  ELSE IF s = "DASHBOARD" THEN setMicActive(m, FALSE)
  ELSE m

\* the screen of stage s is rendered for the first time and its effects
\* run; delayStart is the timeStartedDelayed it is rendered with
Show(s, delayStart) ==
  /\ phaseMode' = initialMode(s)
  /\ timeLeft' = IF s \in MemoryPhases THEN StudyTicks
                 ELSE IF s = "VERBAL_FLUENCY" THEN FluencyTicks ELSE 0
  /\ remainingDelay' = enforceDelay(s, delayStart, elapsed)
  /\ isActive' = FALSE
  /\ micVerified' = (s = "PRE_TEST_CHECK" /\ liveTranscript # <<>>)
  /\ interrupted' = "null"
  /\ manualScore' = 5
  /\ isAnalyzing' = FALSE
  /\ setRecorder(micOnMount(microphone, s,
                            enforceDelay(s, delayStart, elapsed)))
  /\ pendingAnalysis' = {[p EXCEPT !.live = FALSE] : p \in pendingAnalysis}
  /\ scoreSource' = IF s = "PRE_TEST_CHECK" THEN NoSource ELSE scoreSource
  /\ delivered' = NoEvent
  /\ UNCHANGED <<liveTranscript, clearTimers, restartTimer, savedDrawings>>

\* a handler that dispatches nothing to the reducer
NoDispatch ==
  /\ NoScorerCalled
  /\ delivered' = NoEvent
  /\ UNCHANGED <<tables, cache, app>>

\* WelcomeScreen, PatientDashboard, SimpleRegistration, FluencyPhase,
\* ClockPhase, RecognitionPhase, Results: the button that dispatches SET_VIEW
goTo(payload) ==
  /\ stage \notin MemoryPhases
  /\ SET_VIEW(payload)
  /\ Show(payload, timeStartedDelayed)
  /\ UNCHANGED timer

\* SimpleRegistration: handleContinue at step 3; PatientDashboard: Iniciar
\* Teste
handleContinue(payload) ==
  /\ START_TEST_SETUP(payload)
  /\ Show("PRE_TEST_CHECK", timeStartedDelayed)
  /\ UNCHANGED timer

\* PreTestCheck: ATIVAR MICROFONE
onEnableMic ==
  /\ stage = "PRE_TEST_CHECK"
  /\ ~micVerified
  /\ setRecorder(setMicActive(microphone, TRUE))
  /\ NoDispatch
  /\ UNCHANGED clock
  /\ UNCHANGED <<timer, screen, restartTimer>>

\* PreTestCheck: start
start ==
  /\ micVerified
  /\ START_ACTUAL_TEST
  /\ Show("NAMING", timeStartedDelayed)
  /\ UNCHANGED timer

\* MemoryPhase: delayBlocked
delayBlockedNever == FALSE

delayBlocked == stage = "DELAYED_MEMORY" /\ remainingDelay > 0

\* MemoryPhase: one second of the study countdown; at zero the phase turns
\* to RECALL and the mic control effect runs
studyTimer ==
  /\ stage \in TimedStudyStages
  /\ phaseMode = "MEMORIZE"
  /\ timeLeft > 0
  /\ timeLeft' = timeLeft - 1
  /\ IF timeLeft = 1
     THEN /\ phaseMode' = "RECALL"
          /\ setRecorder(micControl(microphone, stage, "RECALL",
                                    remainingDelay))
     ELSE UNCHANGED <<phaseMode, isMicGlobalActive, recognitionRef,
                      stoppedSession>>
  /\ NoDispatch
  /\ UNCHANGED clock
  /\ UNCHANGED <<timer, restartTimer, liveTranscript, clearTimers,
                 micVerified, remainingDelay, isActive, interrupted>>

\* MemoryPhase: Pular Tempo
skipTime ==
  /\ stage \in TimedStudyStages
  /\ phaseMode = "MEMORIZE"
  /\ phaseMode' = "RECALL"
  /\ setRecorder(micControl(microphone, stage, "RECALL", remainingDelay))
  /\ NoDispatch
  /\ UNCHANGED clock
  /\ UNCHANGED <<timer, restartTimer, liveTranscript, clearTimers,
                 micVerified, timeLeft, remainingDelay, isActive,
                 interrupted>>

\* MemoryPhase: the interval that calls enforceDelay every second; the mic
\* control effect runs when remainingDelay has changed
delayTimer ==
  /\ stage \in MemoryPhases
  /\ remainingDelay' = enforceDelay(stage, timeStartedDelayed, elapsed)
  /\ IF enforceDelay(stage, timeStartedDelayed, elapsed) # remainingDelay
     THEN setRecorder(micControl(microphone, stage, phaseMode,
                        enforceDelay(stage, timeStartedDelayed, elapsed)))
     ELSE UNCHANGED <<isMicGlobalActive, recognitionRef, stoppedSession>>
  /\ NoDispatch
  /\ UNCHANGED clock
  /\ UNCHANGED <<timer, restartTimer, liveTranscript, clearTimers,
                 micVerified, phaseMode, timeLeft, isActive, interrupted>>

\* MemoryPhase: PROXIMO
next ==
  /\ stage \in MemoryPhases
  /\ ~(stage \in TimedStudyStages /\ phaseMode = "MEMORIZE")
  /\ ~delayBlocked
  /\ IF stage = "LEARNING" THEN START_DELAY_TIMER ELSE UNCHANGED timer
  /\ SET_VIEW(nextStage[stage])
  /\ Show(nextStage[stage],
          IF stage = "LEARNING" THEN "set" ELSE timeStartedDelayed)

\* FluencyPhase: startTest
startTest ==
  /\ stage = "VERBAL_FLUENCY"
  /\ ~isActive
  /\ timeLeft = FluencyTicks
  /\ isActive' = TRUE
  /\ timeLeft' = FluencyTicks
  /\ NoDispatch
  /\ UNCHANGED clock
  /\ UNCHANGED <<timer, recorder, liveTranscript, clearTimers, micVerified,
                 phaseMode, remainingDelay, interrupted>>

\* FluencyPhase: one second of the countdown; at zero the effect clears
\* isActive
fluencyTimer ==
  /\ stage = "VERBAL_FLUENCY"
  /\ isActive
  /\ timeLeft > 0
  /\ timeLeft' = timeLeft - 1
  /\ isActive' = (timeLeft # 1)
  /\ NoDispatch
  /\ UNCHANGED clock
  /\ UNCHANGED <<timer, recorder, liveTranscript, clearTimers, micVerified,
                 phaseMode, remainingDelay, interrupted>>

\* ClockPhase: the positions of the slider and the quick select buttons
\* the examiner picks
ManualScores == {0, 5, 10}

\* what analyzeClockDrawing resolves to: result.score of the JSON the
\* evaluator answered with, inside and outside the 0 to 5 it was asked for
GeminiScores == {0, 3, 5, 7}

\* canvas.toDataURL of a drawing, and the '' of clearCanvas
Drawings == {"", "image"}

\* geminiService: isGeminiConfigured, with an API key in the environment
isGeminiConfigured == TRUE

\* ClockPhase: the slider and the quick select buttons
setManualScore(score) ==
  /\ stage = "CLOCK_DRAWING"
  /\ ~isAnalyzing
  /\ manualScore' = score
  /\ NoDispatch
  /\ UNCHANGED <<timer, recorder, screen, isAnalyzing, pendingAnalysis,
                 savedDrawings, scoreSource>>

\* ClockPhase: applyScore
applyScore(score) ==
  /\ UPDATE_SCORE("clockDrawing", score)
  /\ delivered' = NoEvent
  /\ UNCHANGED <<timer, recorder, screen>>

\* ClockPhase: Registrar Pontuacao
registerScore ==
  /\ stage = "CLOCK_DRAWING"
  /\ ~isAnalyzing
  /\ applyScore(manualScore)
  /\ scoreSource' = [by |-> "examiner", drawing |-> savedDrawings]
  /\ UNCHANGED <<manualScore, isAnalyzing, pendingAnalysis, savedDrawings>>

\* drawings saved in one visit of ClockPhase
MaxDrawings == 2

\* ClockPhase: handleSave up to its await; ClockCanvas calls it at the end
\* of every stroke and when the canvas is cleared
handleSave(base64) ==
  /\ stage = "CLOCK_DRAWING"
  /\ savedDrawings < MaxDrawings
  /\ SET_CLOCK_IMAGE(base64)
  /\ savedDrawings' = savedDrawings + 1
  /\ IF base64 # "" /\ isGeminiConfigured
     THEN /\ isAnalyzing' = TRUE
          /\ pendingAnalysis' =
               pendingAnalysis
                 \cup {[drawing |-> savedDrawings + 1, live |-> TRUE]}
     ELSE UNCHANGED <<isAnalyzing, pendingAnalysis>>
  /\ delivered' = NoEvent
  /\ UNCHANGED <<timer, recorder, screen, manualScore, scoreSource>>

\* the calls of analyzeClockDrawing that can be awaited
Analyses == [drawing : 1..MaxDrawings, live : BOOLEAN]

\* Math.round(geminiScore * 2) of an integer
sunderlandScore(geminiScore) == geminiScore * 2

\* ClockPhase: handleSave from its await on, the call of analyzeClockDrawing
\* awaited as p having resolved to geminiScore; the dispatch reaches the
\* reducer in any case, the setters act on the ClockPhase that called
\* handleSave if it is still rendered
analyzed(p, geminiScore) ==
  /\ p \in pendingAnalysis
  /\ pendingAnalysis' = pendingAnalysis \ {p}
  /\ applyScore(sunderlandScore(geminiScore))
  /\ manualScore' = IF p.live THEN sunderlandScore(geminiScore)
                    ELSE manualScore
  /\ isAnalyzing' = IF p.live THEN FALSE ELSE isAnalyzing
  /\ scoreSource' = [by |-> "analysis", drawing |-> p.drawing]
  /\ UNCHANGED savedDrawings

\* PostTestCheck: the answer buttons
setInterrupted(answer) ==
  /\ stage = "POST_TEST_CHECK"
  /\ interrupted' = answer
  /\ NoDispatch
  /\ UNCHANGED clock
  /\ UNCHANGED <<timer, recorder, liveTranscript, clearTimers, micVerified,
                 phaseMode, timeLeft, remainingDelay, isActive>>

\* PostTestCheck: finish
finish ==
  /\ interrupted # "null"
  /\ FINISH_TEST
  /\ Show("RESULTS", timeStartedDelayed)
  /\ UNCHANGED timer

\* App: handleSpeechResult, and the effect of PreTestCheck on liveTranscript
handleSpeechResultAlways(text, isFinal) ==
  /\ liveTranscript' = text
  /\ micVerified' = (micVerified \/ (stage = "PRE_TEST_CHECK" /\ text # <<>>))
  /\ delivered' = [transcript |-> text, isFinal |-> isFinal, heard |-> TRUE]
  /\ PROCESS_SPEECH(text)
  /\ clearTimers' = IF clearTimers < MaxUtterances THEN clearTimers + 1
                    ELSE clearTimers
  /\ UNCHANGED clock
  /\ UNCHANGED <<timer, recorder, phaseMode, timeLeft, remainingDelay,
                 isActive, interrupted>>

handleSpeechResult(text, isFinal) ==
  /\ liveTranscript' = text
  /\ micVerified' = (micVerified \/ (stage = "PRE_TEST_CHECK" /\ text # <<>>))
  /\ delivered' = [transcript |-> text, isFinal |-> isFinal, heard |-> TRUE]
  /\ IF isFinal
     THEN /\ PROCESS_SPEECH(text)
          /\ clearTimers' = IF clearTimers < MaxUtterances
                            THEN clearTimers + 1 ELSE clearTimers
     ELSE /\ NoScorerCalled
          /\ UNCHANGED <<tables, cache, app, clearTimers>>
  /\ UNCHANGED clock
  /\ UNCHANGED <<timer, recorder, phaseMode, timeLeft, remainingDelay,
                 isActive, interrupted>>

\* App: the timeout of handleSpeechResult
clearLiveTranscript ==
  /\ clearTimers > 0
  /\ clearTimers' = clearTimers - 1
  /\ liveTranscript' = <<>>
  /\ NoDispatch
  /\ UNCHANGED clock
  /\ UNCHANGED <<timer, recorder, micVerified, phaseMode, timeLeft,
                 remainingDelay, isActive, interrupted>>

\* VoiceRecorder: recognition.onresult, one result of the event
onresult(transcript, isFinal) ==
  /\ recognitionRef = "recognition"
  /\ handleSpeechResult(transcript, isFinal)

\* VoiceRecorder: recognition.onresult of a recognition stop() was called
\* on: the result recognized from the audio captured before the stop
stoppedOnresult(transcript, isFinal) ==
  /\ stoppedSession
  /\ handleSpeechResult(transcript, isFinal)

\* a recognition stop() was called on ends; its onend is unbound
stoppedEnd ==
  /\ stoppedSession
  /\ stoppedSession' = FALSE
  /\ NoDispatch
  /\ UNCHANGED clock
  /\ UNCHANGED <<timer, isMicGlobalActive, recognitionRef, restartTimer,
                 screen>>

\* fault: onend schedules no restart
onendWithoutRestart ==
  /\ recognitionRef = "recognition"
  /\ recognitionRef' = "null"
  /\ NoDispatch
  /\ UNCHANGED clock
  /\ UNCHANGED <<timer, isMicGlobalActive, restartTimer, stoppedSession,
                 screen>>

\* VoiceRecorder: recognition.onend of a recognition that was not stopped
\* by stopRecognition
onend ==
  /\ recognitionRef = "recognition"
  /\ recognitionRef' = "null"
  /\ restartTimer' = (restartTimer \/ isMicGlobalActive)
  /\ NoDispatch
  /\ UNCHANGED clock
  /\ UNCHANGED <<timer, isMicGlobalActive, stoppedSession, screen>>

\* VoiceRecorder: the timeout of onend calls startRecognition
restart ==
  /\ restartTimer
  /\ restartTimer' = FALSE
  /\ recognitionRef' = "recognition"
  /\ NoDispatch
  /\ UNCHANGED clock
  /\ UNCHANGED <<timer, isMicGlobalActive, stoppedSession, screen>>

\* the clock advances
Tick ==
  /\ timeStartedDelayed = "set"
  /\ elapsed < minDelayTicks
  /\ elapsed' = elapsed + 1
  /\ NoDispatch
  /\ UNCHANGED clock
  /\ UNCHANGED <<timeStartedDelayed, recorder, screen>>

InitApp ==
  /\ ModuleLoaded("SHIPPED")
  /\ INITIAL_STATE
  /\ AppMounted
  /\ pc = "reducer"
  /\ args = NoCall
  /\ result = NoResult
  /\ trace = NoTrace

NextApp ==
  \/ \E payload \in TestStage : goTo(payload)
  \/ \E payload \in Patients : handleContinue(payload)
  \/ onEnableMic
  \/ start
  \/ studyTimer
  \/ skipTime
  \/ delayTimer
  \/ next
  \/ startTest
  \/ fluencyTimer
  \/ \E answer \in {"true", "false"} : setInterrupted(answer)
  \/ finish
  \/ \E transcript \in HeardTranscripts, isFinal \in BOOLEAN :
       onresult(transcript, isFinal)
  \/ \E transcript \in HeardTranscripts, isFinal \in BOOLEAN :
       stoppedOnresult(transcript, isFinal)
  \/ stoppedEnd
  \/ clearLiveTranscript
  \/ onend
  \/ restart
  \/ Tick

SpecApp == InitApp /\ [][NextApp]_vars

\* the timeout onend sets fires: a pending setTimeout callback is run
SpecAppFair == SpecApp /\ WF_vars(restart)

\* a session in which the recognizer delivers interim results only and the
\* examiner skips the study countdowns, with the handlers of ClockPhase
NextClock ==
  \/ \E payload \in TestStage : goTo(payload)
  \/ \E payload \in Patients : handleContinue(payload)
  \/ onEnableMic
  \/ \E transcript \in HeardTranscripts : onresult(transcript, FALSE)
  \/ start
  \/ skipTime
  \/ next
  \/ \E score \in ManualScores : setManualScore(score)
  \/ registerScore
  \/ \E base64 \in Drawings : handleSave(base64)
  \/ \E p \in Analyses, geminiScore \in GeminiScores :
       analyzed(p, geminiScore)

SpecClock == InitApp /\ [][NextClock]_vars

(***************************************************************************)
(* The reducer driven by the dispatches of whole test sessions, those of   *)
(* ClockPhase included; the screens stay as they are                       *)
(***************************************************************************)
NextSession ==
  \/ \E payload \in TestStage : SET_VIEW(payload) /\ UNCHANGED ui
  \/ \E payload \in Patients : START_TEST_SETUP(payload) /\ UNCHANGED ui
  \/ START_ACTUAL_TEST /\ UNCHANGED ui
  \/ FINISH_TEST /\ UNCHANGED ui
  \/ \E rawText \in HeardTranscripts :
        PROCESS_SPEECH(rawText) /\ UNCHANGED ui
  \/ \E value \in ManualScores :
        /\ stage = "CLOCK_DRAWING"
        /\ UPDATE_SCORE("clockDrawing", value)
        /\ UNCHANGED ui
  \/ \E payload \in Drawings :
        /\ stage = "CLOCK_DRAWING"
        /\ SET_CLOCK_IMAGE(payload)
        /\ UNCHANGED ui

SpecSession == Init /\ [][NextSession]_vars

(***************************************************************************)
(* utils/storage.ts: the patients kept in localStorage                     *)
(***************************************************************************)
\* test results of one stored patient
MaxHistory == 2

\* what crypto.randomUUID returns, and the ids callers pass
PatientIds == {"id1", "id2"}

PatientNames == {"Ana", "Rui"}

\* BBRCScores objects handed to addTestResult
TestResults ==
  { [recognition |-> 10, date |-> "day1"],
    [recognition |-> 6, date |-> "day2"] }

Histories == SeqsUpTo(TestResults, 1)

\* Patient objects handed to savePatient
PatientObjects ==
  [id : PatientIds, name : PatientNames, age : {65}, education : {"LOW"},
   history : Histories]

\* JSON.stringify of a list of patients: the text lists, for each patient,
\* the values of id, name, age, education and history in this order, and
\* for each result of history its recognition and its date
stringifyResult(r) == <<r.recognition, r.date>>

stringifyPatient(p) ==
  <<p.id, p.name, p.age, p.education,
    [k \in DOMAIN p.history |-> stringifyResult(p.history[k])]>>

stringify(patients) ==
  [i \in DOMAIN patients |-> stringifyPatient(patients[i])]

\* JSON.parse of such a text
parseResult(t) == [recognition |-> t[1], date |-> t[2]]

parsePatient(t) ==
  [id |-> t[1], name |-> t[2], age |-> t[3], education |-> t[4],
   history |-> [k \in DOMAIN t[5] |-> parseResult(t[5][k])]]

parse(text) == [i \in DOMAIN text |-> parsePatient(text[i])]

\* getPatients, reading the item given
getPatientsOf(storage) ==
  IF storage.item = "null" THEN <<>> ELSE parse(storage.text)

getPatients == getPatientsOf(localStorage)

\* patients.findIndex(p => p.id === id), from 1; 0 when there is none
findIndex(patients, id) ==
  IF \E i \in DOMAIN patients : patients[i].id = id
  THEN CHOOSE i \in DOMAIN patients :
         /\ patients[i].id = id
         /\ \A j \in 1..(i - 1) : patients[j].id # id
  ELSE 0

\* Variant of stored: the patient is pushed, stored before or not
storedPushing(patients, patient) == Append(patients, patient)

\* the list savePatient writes: the patient replaces the entry of its id,
\* or is pushed
stored(patients, patient) ==
  IF findIndex(patients, patient.id) >= 1
  THEN [patients EXCEPT ![findIndex(patients, patient.id)] = patient]
  ELSE Append(patients, patient)

\* localStorage.setItem(STORAGE_KEY, JSON.stringify(patients))
setItem(patients) ==
  localStorage' = [item |-> "string", text |-> stringify(patients)]

\* the call a caller of storage.ts makes (history)
storageCall(fn, id, value) ==
  /\ args' = [fn |-> fn, patientId |-> id, value |-> value]
  /\ UNCHANGED <<pc, result, trace>>

savePatient(patient) ==
  /\ setItem(stored(getPatients, patient))
  /\ storageCall("savePatient", patient.id, patient)
  /\ UNCHANGED <<vocabulary, addedAnimals, cache, app, ui>>

\* getPatientById: patients.find(p => p.id === id), "undefined" when there
\* is none
getPatientById(id) ==
  IF findIndex(getPatients, id) >= 1
  THEN getPatients[findIndex(getPatients, id)]
  ELSE "undefined"

addTestResult(patientId, results) ==
  /\ storageCall("addTestResult", patientId, results)
  /\ IF findIndex(getPatients, patientId) >= 1
     THEN /\ Len(getPatientById(patientId).history) < MaxHistory
          /\ setItem(stored(getPatients,
                            [getPatientById(patientId) EXCEPT
                               !.history = Append(@, results)]))
     ELSE UNCHANGED localStorage
  /\ UNCHANGED <<vocabulary, addedAnimals, cache, app, ui>>

\* createPatient, crypto.randomUUID having returned id
createPatient(name, id) ==
  /\ setItem(stored(getPatients,
                    [id |-> id, name |-> name, age |-> 65,
                     education |-> "LOW", history |-> <<>>]))
  /\ storageCall("createPatient", id, name)
  /\ UNCHANGED <<vocabulary, addedAnimals, cache, app, ui>>

NextStorage ==
  \/ \E patient \in PatientObjects : savePatient(patient)
  \/ \E patientId \in PatientIds, results \in TestResults :
       addTestResult(patientId, results)
  \/ \E name \in PatientNames, id \in PatientIds : createPatient(name, id)

SpecStorage == Init /\ [][NextStorage]_vars

(***************************************************************************)
(* Properties                                                              *)
(***************************************************************************)
Range(s) == {s[i] : i \in DOMAIN s}

Distinct(s) == \A i, j \in DOMAIN s : i # j => s[i] # s[j]

\* the target identities of the loaded configuration
TargetIdentities == Range(Vocabularies[vocabulary].TARGET_WORDS)

Returned(fns) == pc = "done" /\ args.fn \in fns

\* the token maps, as primary form or synonym, to a target of the table
MapsToTarget(token, targetForms) ==
  normalize(token.raw) \in DOMAIN targetForms

TargetOf(token, targetForms) == targetForms[normalize(token.raw)]

\* C1: in a memory phase or in RECOGNITION, as long as no SET_VIEW clears
\* it, currentStageFoundWords holds target identities only and each of them
\* at most once, whichever forms were spoken in one or several utterances.
C1_FoundWordsOncePerTarget ==
  /\ \A i \in DOMAIN currentStageFoundWords :
       currentStageFoundWords[i] \in TargetIdentities
  /\ Distinct(currentStageFoundWords)

\* one target spoken in two different forms over two utterances of one
\* phase, the second one scored a repeat
C1_Witness ==
  /\ stage \in MemoryPhases \cup {"RECOGNITION"}
  /\ spoken = 2
  /\ Len(currentStageFoundWords) = 1
  /\ args.already = currentStageFoundWords
  /\ \E i, j \in DOMAIN currentStageResponses.tokens :
       /\ currentStageResponses.tokens[i].mappedId = currentStageFoundWords[1]
       /\ currentStageResponses.tokens[j].mappedId = currentStageFoundWords[1]
       /\ currentStageResponses.tokens[i].raw
            # currentStageResponses.tokens[j].raw
       /\ currentStageResponses.tokens[j] \in Range(result.repeats)

\* C2: a PROCESS_SPEECH step of the fluency phase leaves a verbalFluencyList
\* without a repeated canonical form and a verbalFluency score equal to its
\* length; a phrase the list already held is pushed to repeats, and animals
\* holds none of the forms the list already held.
C2_FluencyStep ==
  (stage = "VERBAL_FLUENCY" /\ spoken' = spoken + 1) =>
    /\ Distinct(verbalFluencyList')
    /\ scores'.verbalFluency = Len(verbalFluencyList')
    /\ \A k \in DOMAIN trace' :
         trace'[k].phrase \in Range(verbalFluencyList)
           => trace'[k].list = "repeats"
    /\ Range(result'.animals) \cap Range(verbalFluencyList) = {}
    /\ Range(verbalFluencyList') =
         Range(verbalFluencyList) \cup Range(result'.animals)

C2_FluencyListDistinct == [][C2_FluencyStep]_vars

\* the second utterance of the phase repeats an animal and adds a new one
C2_Witness ==
  /\ stage = "VERBAL_FLUENCY"
  /\ spoken = 2
  /\ args.already # <<>>
  /\ Len(result.repeats) >= 1
  /\ Len(result.animals) >= 1
  /\ Len(verbalFluencyList) = 2
  /\ scores.verbalFluency = 2

\* C3: scoreRecallUtterance classifies repeat every token that maps to a
\* target of alreadyHit, and hits holds only targets that are not in
\* alreadyHit.
RepeatsAlreadyHit(targetForms) ==
  /\ \A i \in DOMAIN result.tokens :
       (/\ MapsToTarget(result.tokens[i], targetForms)
        /\ TargetOf(result.tokens[i], targetForms).id \in Range(args.already))
         => /\ result.tokens[i].classification = "repeat"
            /\ result.tokens[i] \in Range(result.repeats)
  /\ Range(result.hits) \subseteq TargetIdentities \ Range(args.already)

C3_RecallRepeatsAlreadyHit ==
  Returned({"scoreRecallUtterance"}) => RepeatsAlreadyHit(allTargetForms)

\* a target of alreadyHit is spoken in another form and a new one is hit
C3_Witness ==
  /\ Returned({"scoreRecallUtterance"})
  /\ Len(result.hits) >= 1
  /\ \E i \in DOMAIN result.repeats :
       /\ result.repeats[i].mappedId \in Range(args.already)
       /\ result.repeats[i].raw # result.repeats[i].mappedId

\* the position of the first token of the call that maps to the target id
FirstTokenOf(id, targetForms) ==
  CHOOSE i \in DOMAIN result.tokens :
    /\ MapsToTarget(result.tokens[i], targetForms)
    /\ TargetOf(result.tokens[i], targetForms).id = id
    /\ \A j \in 1..(i - 1) :
         ~(/\ MapsToTarget(result.tokens[j], targetForms)
           /\ TargetOf(result.tokens[j], targetForms).id = id)

\* C4: hits of the recall and recognition scorers holds, without
\* duplicates, the targets the tokens map to that are not in alreadyHit, in
\* the order of the first token that maps to each.
HitsInOrderOfFirstToken(targetForms) ==
  /\ Distinct(result.hits)
  /\ Range(result.hits) =
       {TargetOf(result.tokens[i], targetForms).id :
          i \in {j \in DOMAIN result.tokens :
                   MapsToTarget(result.tokens[j], targetForms)}}
       \ Range(args.already)
  /\ \A k, l \in DOMAIN result.hits :
       k < l => FirstTokenOf(result.hits[k], targetForms)
                  < FirstTokenOf(result.hits[l], targetForms)

C4_HitsFirstOccurrenceOrder ==
  Returned({"scoreRecallUtterance", "scoreRecognitionUtterance"})
    => HitsInOrderOfFirstToken(allTargetForms)

\* two targets hit, the first of them spoken again after the second
C4_Witness ==
  /\ Returned({"scoreRecallUtterance", "scoreRecognitionUtterance"})
  /\ Len(result.hits) = 2
  /\ Len(result.tokens) = 3
  /\ result.tokens[3].classification = "repeat"
  /\ result.tokens[3].mappedId = result.hits[1]

\* C5: under a configuration where a form is registered in the target table
\* and also as a distractor form or in the recognition vocabulary, a token
\* with such a form is classified through the target table, in recall and in
\* recognition mode: target when its canonical form was not yet seen, repeat
\* when it was, with the target identity as mappedId.
CollidingFormsAreTargets(t) ==
  \A i \in DOMAIN result.tokens :
    (/\ MapsToTarget(result.tokens[i], t.allTargetForms)
     /\ \/ normalize(result.tokens[i].raw) \in t.distractorForms
        \/ normalize(result.tokens[i].raw) \in DOMAIN t.recognitionVocabulary)
      => /\ result.tokens[i].mappedId
              = TargetOf(result.tokens[i], t.allTargetForms).id
         /\ result.tokens[i].classification =
              IF TargetOf(result.tokens[i], t.allTargetForms).canonical
                   \in trace[i]
              THEN "repeat" ELSE "target"

C5_TargetTableWinsCollisions ==
  Returned({"scoreRecallUtterance", "scoreRecognitionUtterance"})
    => CollidingFormsAreTargets(LoadedTables[vocabulary])

\* recognition mode: a target credited by a form that is also a distractor
\* form, then repeated by a form the recognition vocabulary gives to a
\* distractor item
C5_Witness ==
  /\ Returned({"scoreRecognitionUtterance"})
  /\ Len(result.tokens) = 2
  /\ result.tokens[1].classification = "target"
  /\ result.tokens[1].normalized \in distractorForms
  /\ result.tokens[2].classification = "repeat"
  /\ result.tokens[2].normalized \in DOMAIN recognitionVocabulary
  /\ ~recognitionVocabulary[result.tokens[2].normalized].isTarget

\* the trigram window at word position i is a phrase of the dictionary
DictionaryTrigramAt(words, i) ==
  normalize(trigramAt(words, i)) \in normalizedEntries[args.validAnimals]

\* a record pushed for the n words from position i on
MatchedAt(i, n) ==
  \E k \in DOMAIN trace : trace[k].start = i /\ trace[k].n = n

\* one of the three words from position i on belongs to a trigram record
\* that starts further left
OverlappedFromLeft(i) ==
  \E k \in DOMAIN trace :
    trace[k].n = 3 /\ trace[k].start < i /\ i <= trace[k].start + 2

EveryDictionaryTrigramMatched(words) ==
  \A i \in 1..(Len(words) - 2) :
    DictionaryTrigramAt(words, i) => MatchedAt(i, 3)

LeftmostDictionaryTrigramsMatched(words) ==
  \A i \in 1..(Len(words) - 2) :
    DictionaryTrigramAt(words, i) => MatchedAt(i, 3) \/ OverlappedFromLeft(i)

\* C6 as stated: in scoreFluencyUtterance, whenever three consecutive words
\* form a phrase of the dictionary, one trigram record is pushed for them.
C6_EveryTrigramMatched ==
  Returned({"scoreFluencyUtterance"})
    => EveryDictionaryTrigramMatched(tokenize(args.transcript))

\* C6, amended: whenever three consecutive words form a phrase of the
\* dictionary, one trigram record is pushed for them, unless one of the
\* three words already belongs to a trigram record that starts further left.
C6_LeftmostTrigramMatched ==
  Returned({"scoreFluencyUtterance"})
    => LeftmostDictionaryTrigramsMatched(tokenize(args.transcript))

\* a dictionary trigram after a single word, although its last two words
\* and its last word are dictionary entries too
C6_Witness ==
  /\ Returned({"scoreFluencyUtterance"})
  /\ Len(trace) = 2
  /\ trace[1] = [start |-> 2, n |-> 3, list |-> "animals",
                 phrase |-> <<"m","i","c","o"," ","l","e","a","o"," ",
                              "d","o","u","r","a","d","o">>]
  /\ trace[2].start = 1

\* the word positions a pushed record covers
Covers(match, p) == match.start <= p /\ p < match.start + match.n

\* C7: in scoreFluencyUtterance every word position belongs to exactly one
\* pushed record, and each pushed record is one entry of animals, invalid
\* or repeats.
EachWordInOneRecord(words) ==
  /\ \A p \in 1..Len(words) :
       Cardinality({k \in DOMAIN trace : Covers(trace[k], p)}) = 1
  /\ \A k \in DOMAIN trace :
       /\ trace[k].start >= 1
       /\ trace[k].start + trace[k].n - 1 <= Len(words)
  /\ Len(trace)
       = Len(result.animals) + Len(result.invalid) + Len(result.repeats)

C7_EachWordInOneRecord ==
  Returned({"scoreFluencyUtterance"})
    => EachWordInOneRecord(tokenize(args.transcript))

\* four words scored as a bigram, an invalid word and a single-word animal
C7_Witness ==
  /\ Returned({"scoreFluencyUtterance"})
  /\ Len(tokenize(args.transcript)) = 4
  /\ Len(trace) = 3
  /\ \E k \in DOMAIN trace : trace[k].n = 2
  /\ \E k \in DOMAIN trace : trace[k].n = 1 /\ trace[k].list = "invalid"
  /\ \E k \in DOMAIN trace : trace[k].n = 1 /\ trace[k].list = "animals"

\* the token has a distractor form, or a form the recognition vocabulary
\* gives to a distractor item, that is no target form
IsDistractorMention(token, t) ==
  /\ ~MapsToTarget(token, t.allTargetForms)
  /\ \/ normalize(token.raw) \in t.distractorForms
     \/ /\ normalize(token.raw) \in DOMAIN t.recognitionVocabulary
        /\ ~t.recognitionVocabulary[normalize(token.raw)].isTarget

\* C8: scoreRecognitionUtterance classifies distractor every token with a
\* distractor form or a non-target recognition-vocabulary form that is no
\* target form, lists it in distractorHits and neither in intrusions nor,
\* by its mappedId, in hits.
DistractorMentionsSeparated(t) ==
  \A i \in DOMAIN result.tokens :
    IsDistractorMention(result.tokens[i], t)
      => /\ result.tokens[i].classification = "distractor"
         /\ result.tokens[i] \in Range(result.distractorHits)
         /\ result.tokens[i] \notin Range(result.intrusions)
         /\ result.tokens[i].mappedId \notin Range(result.hits)

C8_RecognitionDistractors ==
  Returned({"scoreRecognitionUtterance"})
    => DistractorMentionsSeparated(LoadedTables[vocabulary])

\* a synonym of a distractor item and the accented name of another one in
\* one utterance
C8_Witness ==
  /\ Returned({"scoreRecognitionUtterance"})
  /\ Len(result.distractorHits) = 2
  /\ result.distractorHits[1].normalized = <<"b","a","r","c","o">>
  /\ result.distractorHits[1].mappedId = <<"n","a","v","i","o">>
  /\ result.distractorHits[2].normalized
       = <<"c","a","m","i","n","h","a","o">>
  /\ result.distractorHits[2].mappedId
       = <<"c","a","m","i","n","h","a+0303","o">>

\* the canonical forms seen when token i is classified: those of alreadyHit
\* and those of the targets credited by the tokens before it
SeenAt(i) ==
  {normalize(args.already[k]) : k \in DOMAIN args.already}
    \cup {normalize(result.tokens[j].mappedId) :
            j \in {k \in 1..(i - 1) :
                     result.tokens[k].classification = "target"}}

\* C9: with the shipped vocabulary, scoreRecognitionUtterance classifies no
\* token target when the canonical form of its target is already seen; a
\* token with a form of a target item of the recognition vocabulary whose
\* canonical form is already seen is classified repeat.
NoSeenTargetCredited(t) ==
  \A i \in DOMAIN result.tokens :
    /\ result.tokens[i].classification = "target"
         => normalize(result.tokens[i].mappedId) \notin SeenAt(i)
    /\ (/\ normalize(result.tokens[i].raw) \in DOMAIN t.recognitionVocabulary
        /\ t.recognitionVocabulary[normalize(result.tokens[i].raw)].isTarget
        /\ normalize(t.recognitionVocabulary[normalize(result.tokens[i].raw)].id)
             \in SeenAt(i))
         => result.tokens[i].classification = "repeat"

C9_RecognitionRepeats ==
  (Returned({"scoreRecognitionUtterance"}) /\ vocabulary = "SHIPPED")
    => NoSeenTargetCredited(LoadedTables[vocabulary])

\* a target of alreadyHit and a target credited in the utterance are both
\* spoken again, in forms of the recognition vocabulary
C9_Witness ==
  /\ Returned({"scoreRecognitionUtterance"})
  /\ vocabulary = "SHIPPED"
  /\ Len(result.hits) = 1
  /\ Len(result.repeats) = 2
  /\ result.repeats[1].mappedId \in Range(args.already)
  /\ result.repeats[2].mappedId = result.hits[1]
  /\ result.repeats[1].normalized \in DOMAIN recognitionVocabulary

\* C10: scoreRecallUtterance classifies no token distractor; a token with a
\* distractor form that is no target form is an intrusion whose mappedId is
\* its canonical form, it is listed in intrusions and adds nothing to hits.
DistractorsAreIntrusions(t) ==
  \A i \in DOMAIN result.tokens :
    /\ result.tokens[i].classification # "distractor"
    /\ (/\ normalize(result.tokens[i].raw) \in t.distractorForms
        /\ ~MapsToTarget(result.tokens[i], t.allTargetForms))
         => /\ result.tokens[i].classification = "intrusion"
            /\ result.tokens[i].mappedId = normalize(result.tokens[i].raw)
            /\ result.tokens[i] \in Range(result.intrusions)
            /\ result.tokens[i].mappedId \notin Range(result.hits)
            /\ result.tokens[i].raw \notin Range(result.hits)

C10_RecallNeverDistractor ==
  Returned({"scoreRecallUtterance"})
    => DistractorsAreIntrusions(LoadedTables[vocabulary])

\* a distractor spoken with its accent between two target forms
C10_Witness ==
  /\ Returned({"scoreRecallUtterance"})
  /\ Len(result.hits) >= 1
  /\ Len(result.intrusions) = 1
  /\ result.intrusions[1].raw = <<"c","a","m","i","n","h","a+0303","o">>
  /\ result.intrusions[1].mappedId = <<"c","a","m","i","n","h","a","o">>

\* a PROCESS_SPEECH of a memory phase or of RECOGNITION has just run
Scored == args.fn \in {"scoreRecallUtterance", "scoreRecognitionUtterance"}

\* C11: every entry of the hits a recall or recognition call returns, and
\* every entry of currentStageFoundWords, is a target of TARGET_WORDS in its
\* primary spelling and not the form that was spoken; the canonical form
\* of that spelling is the one the target table marks as seen, so a token
\* that maps, in any form, to a target of the list the call was seeded with
\* is a repeat.
PrimarySpellings(t) ==
  /\ Range(currentStageFoundWords) \subseteq Range(TARGET_WORDS)
  /\ \A i \in DOMAIN currentStageFoundWords :
       /\ normalize(currentStageFoundWords[i]) \in DOMAIN t
       /\ t[normalize(currentStageFoundWords[i])].id
            = currentStageFoundWords[i]
       /\ t[normalize(currentStageFoundWords[i])].canonical
            = normalize(currentStageFoundWords[i])
  /\ Scored =>
       /\ Range(result.hits) \subseteq Range(TARGET_WORDS)
       /\ Range(result.hits) \subseteq Range(currentStageFoundWords)
       /\ \A i \in DOMAIN result.tokens :
            (/\ MapsToTarget(result.tokens[i], t)
             /\ TargetOf(result.tokens[i], t).id \in Range(args.already))
              => result.tokens[i].classification = "repeat"

C11_HitsArePrimarySpellings == PrimarySpellings(allTargetForms)

\* 'Aviao' was credited as the target spelled with a tilde, and the next
\* utterance of the phase says it again
C11_Witness ==
  /\ Scored
  /\ spoken = 2
  /\ currentStageFoundWords = <<TARGET_WORDS[9]>>
  /\ args.already = <<TARGET_WORDS[9]>>
  /\ \E i \in DOMAIN result.repeats :
       /\ result.repeats[i].raw = <<"A","v","i","a","o">>
       /\ result.repeats[i].mappedId = TARGET_WORDS[9]

\* C12: once PROCESS_SPEECH has scored an utterance of a memory phase or of
\* RECOGNITION, the score of that phase is the number of entries of
\* currentStageFoundWords, and it lies between 0 and 10.
C12_ScoreCountsFoundWords ==
  Scored =>
    /\ scores[scoreKey[stage]] = Len(currentStageFoundWords)
    /\ scores[scoreKey[stage]] \in 0..10

\* the second utterance of the phase adds one target to the one found
\* before
C12_Witness ==
  /\ Scored
  /\ spoken = 2
  /\ Len(args.already) = 1
  /\ Len(result.hits) = 1
  /\ Len(currentStageFoundWords) = 2
  /\ scores[scoreKey[stage]] = 2

\* C13: a recognizer result that is not final dispatches no PROCESS_SPEECH:
\* it calls no scorer and leaves the found words, the fluency list, the
\* response capture and the scores as they are; a final result dispatches
\* exactly one PROCESS_SPEECH, and nothing else dispatches one.
C13_Step ==
  /\ (delivered'.heard /\ ~delivered'.isFinal) =>
       /\ spoken' = spoken
       /\ args' = NoCall
       /\ UNCHANGED <<currentStageFoundWords, verbalFluencyList,
                      currentStageResponses, scores>>
  /\ (delivered'.heard /\ delivered'.isFinal) => spoken' = spoken + 1
  /\ spoken' = spoken + 1 => (delivered'.heard /\ delivered'.isFinal)

C13_OnlyFinalTranscriptsScored == [][C13_Step]_vars

\* in the naming phase a final 'sapato' has been credited and an interim
\* transcript has just been shown
C13_Witness ==
  /\ stage = "NAMING"
  /\ delivered.heard
  /\ ~delivered.isFinal
  /\ liveTranscript = delivered.transcript
  /\ spoken = 1
  /\ currentStageFoundWords = <<TARGET_WORDS[1]>>

\* the first token of the utterance just scored that maps to each target is
\* classified target and its target is among the found words
FirstMentionsCredited(tokens, found, t) ==
  \A i \in DOMAIN tokens :
    (/\ MapsToTarget(tokens[i], t)
     /\ \A j \in 1..(i - 1) :
          MapsToTarget(tokens[j], t) =>
            TargetOf(tokens[j], t).id # TargetOf(tokens[i], t).id)
      => /\ tokens[i].classification = "target"
         /\ TargetOf(tokens[i], t).id \in Range(found)

\* C14: a step that changes the stage leaves currentStageFoundWords,
\* verbalFluencyList and currentStageResponses empty; the first utterance
\* scored in a memory phase or in RECOGNITION after that is scored against
\* an empty list, so the first mention of every target is classified target
\* and credited, whatever the phases before have credited, and the capture
\* holds the tokens of that utterance only.
C14_Step ==
  /\ stage' # stage =>
       /\ currentStageFoundWords' = <<>>
       /\ verbalFluencyList' = <<>>
       /\ currentStageResponses' = EMPTY_CAPTURE
  /\ (/\ spoken' = spoken + 1
      /\ stage \in MemoryPhases \cup {"RECOGNITION"}
      /\ currentStageResponses = EMPTY_CAPTURE) =>
       /\ args'.already = <<>>
       /\ FirstMentionsCredited(result'.tokens, currentStageFoundWords',
                                allTargetForms)
       /\ currentStageResponses'.tokens = result'.tokens
       /\ currentStageResponses'.repeats = result'.repeats

C14_PhaseStartsEmpty == [][C14_Step]_vars

\* the naming phase credited both targets the recognizer can hear; the
\* first utterance of the next phase is credited again
C14_Witness ==
  /\ stage = "INCIDENTAL_MEMORY"
  /\ scores.naming = 2
  /\ spoken = 2
  /\ Scored
  /\ args.already = <<>>
  /\ Len(result.hits) >= 1
  /\ result.repeats = <<>>
  /\ scores.incidentalMemory = Len(result.hits)

Prefix(a, b) == Len(a) <= Len(b) /\ SubSeq(b, 1, Len(a)) = a

\* C15: a step that stays in the stage leaves the found words and the
\* fluency list it started from as a prefix of the new lists, and no score
\* decreases: within a phase the lists only grow at their end.
C15_Step ==
  stage' = stage =>
    /\ Prefix(currentStageFoundWords, currentStageFoundWords')
    /\ Prefix(verbalFluencyList, verbalFluencyList')
    /\ \A key \in DOMAIN scores : scores'[key] >= scores[key]

C15_ListsGrowWithinPhase == [][C15_Step]_vars

\* the second utterance of a phase adds a target behind the one found by
\* the first
C15_Witness ==
  /\ Scored
  /\ spoken = 2
  /\ Len(args.already) = 1
  /\ Len(currentStageFoundWords) = 2
  /\ currentStageFoundWords[1] = args.already[1]
  /\ currentStageFoundWords[2] = result.hits[1]

\* C16: a final transcript that FluencyPhase receives while its countdown
\* is not running (isActive is false: startTest has not been pressed yet,
\* or timeLeft has reached zero) adds no animal to verbalFluencyList and
\* leaves the verbalFluency score as it is.
C16_Step ==
  (/\ stage = "VERBAL_FLUENCY"
   /\ ~isActive
   /\ delivered'.heard
   /\ delivered'.isFinal) =>
    /\ verbalFluencyList' = verbalFluencyList
    /\ scores'.verbalFluency = scores.verbalFluency

C16_FluencyOnlyInsideWindow == [][C16_Step]_vars

\* C17: while the stage is DELAYED_MEMORY and the interval of minDelayMs
\* since START_DELAY_TIMER has not passed, a final transcript changes
\* neither currentStageFoundWords nor the delayedMemory score.
C17_Step ==
  (/\ stage = "DELAYED_MEMORY"
   /\ timeStartedDelayed = "set"
   /\ elapsed < minDelayTicks
   /\ delivered'.heard
   /\ delivered'.isFinal) =>
    /\ currentStageFoundWords' = currentStageFoundWords
    /\ scores'.delayedMemory = scores.delayedMemory

C17_DelayedRecallBlocked == [][C17_Step]_vars

\* the stages of a test session in the order of the protocol
SessionOrder ==
  <<"PRE_TEST_CHECK", "NAMING", "INCIDENTAL_MEMORY", "IMMEDIATE_MEMORY",
    "LEARNING", "VERBAL_FLUENCY", "CLOCK_DRAWING", "DELAYED_MEMORY",
    "RECOGNITION", "POST_TEST_CHECK", "RESULTS">>

PositionOf(s) == CHOOSE i \in DOMAIN SessionOrder : SessionOrder[i] = s

\* C18: a step of the screens that changes the stage leaves a test stage
\* only for the stage that follows it in the protocol (RESULTS only for the
\* dashboard), and enters a test stage other than PRE_TEST_CHECK only from
\* the stage before it; PRE_TEST_CHECK is entered only from outside a
\* session.  A step from DELAYED_MEMORY to RECOGNITION is taken only when
\* the interval of minDelayMs since START_DELAY_TIMER has passed.
C18_Step ==
  stage' # stage =>
    /\ (stage \in Range(SessionOrder) /\ stage # "RESULTS") =>
         stage' = SessionOrder[PositionOf(stage) + 1]
    /\ stage = "RESULTS" => stage' = "DASHBOARD"
    /\ (stage' \in Range(SessionOrder) /\ stage' # "PRE_TEST_CHECK") =>
         stage = SessionOrder[PositionOf(stage') - 1]
    /\ stage' = "PRE_TEST_CHECK" => stage \in {"REGISTRATION", "DASHBOARD"}
    /\ (stage = "DELAYED_MEMORY" /\ stage' = "RECOGNITION") =>
         /\ timeStartedDelayed = "set"
         /\ elapsed >= minDelayTicks
         /\ remainingDelay = 0

C18_StagesInProtocolOrder == [][C18_Step]_vars

\* a session has reached RECOGNITION: the interval has passed and delayed
\* recall credited a word after it
C18_Witness ==
  /\ stage = "RECOGNITION"
  /\ timeStartedDelayed = "set"
  /\ elapsed = minDelayTicks
  /\ scores.delayedMemory = 1

\* the words joined by single spaces
RECURSIVE JoinWords(_)
JoinWords(words) ==
  IF words = <<>> THEN <<>>
  ELSE IF Len(words) = 1 THEN words[1]
  ELSE words[1] \o <<" ">> \o JoinWords(Tail(words))

\* the canonical form of every entry of each dictionary
CanonicalEntries ==
  [d \in DOMAIN AnimalSets |-> {normalize(e) : e \in AnimalSets[d]}]

\* the utterance of the call is one to three words that, joined, have the
\* canonical form of an entry of the dictionary of the call
SaysOneEntry ==
  /\ pc = "done"
  /\ args.fn = "scoreFluencyUtterance"
  /\ Len(tokenize(args.transcript)) \in 1..3
  /\ normalize(JoinWords(tokenize(args.transcript)))
       \in CanonicalEntries[args.validAnimals]

\* C19: when the utterance of a scoreFluencyUtterance call is one to three
\* words whose join has the canonical form normalize(e) of a dictionary
\* entry e, stored with or without diacritics or capitals, the call returns
\* that one phrase, mapped to normalize(e), and nothing invalid: as the
\* animal normalize(e), or as a repeat when alreadyProduced holds a form of
\* it.
C19_FluencyMatchesCanonically ==
  SaysOneEntry =>
    /\ result.invalid = <<>>
    /\ IF normalize(JoinWords(tokenize(args.transcript)))
            \in {normalize(args.already[i]) : i \in DOMAIN args.already}
       THEN /\ result.animals = <<>>
            /\ result.tokens = <<>>
            /\ Len(result.repeats) = 1
            /\ result.repeats[1].classification = "repeat"
            /\ result.repeats[1].mappedId
                 = normalize(JoinWords(tokenize(args.transcript)))
       ELSE /\ result.animals
                 = <<normalize(JoinWords(tokenize(args.transcript)))>>
            /\ result.repeats = <<>>
            /\ Len(result.tokens) = 1
            /\ result.tokens[1].classification = "target"
            /\ result.tokens[1].mappedId
                 = normalize(JoinWords(tokenize(args.transcript)))

\* 'leao' spoken with its tilde is credited against an entry stored with
\* the tilde
C19_Witness ==
  /\ SaysOneEntry
  /\ args.validAnimals = "MULTI_WORD"
  /\ args.transcript = <<"l","e","a+0303","o">>
  /\ <<"l","e","a+0303","o">> \in AnimalSets.MULTI_WORD
  /\ args.already = <<>>
  /\ result.animals = << <<"l","e","a","o">> >>

\* C20: normalize applied to what normalize returned returns it unchanged,
\* for every text of letters in either case, precomposed or followed by
\* combining marks, with white space at its ends or inside.
C20_NormalizeIdempotent ==
  (pc = "again" /\ args.fn = "normalize") =>
    /\ trace = result
    /\ result = normalize(args.transcript)

\* a capital precomposed letter between a tab and a space has lost its
\* tilde, its case and the white space, and the second call keeps it
C20_Witness ==
  /\ pc = "again"
  /\ args.fn = "normalize"
  /\ args.transcript = <<"\t", "A+0303", " ">>
  /\ result = <<"a">>
  /\ trace = <<"a">>

\* the transcript is empty or holds white space and separators only
Blank(transcript) ==
  \A i \in DOMAIN transcript : transcript[i] \in SplitChars

\* every list of what a scorer returned is empty
NothingReturned(r, fn) ==
  /\ r.tokens = <<>>
  /\ r.repeats = <<>>
  /\ IF fn = "scoreFluencyUtterance"
     THEN r.animals = <<>> /\ r.invalid = <<>>
     ELSE r.hits = <<>> /\ r.intrusions = <<>>
  /\ fn = "scoreRecognitionUtterance" => r.distractorHits = <<>>

\* C21: a PROCESS_SPEECH whose transcript is empty or holds only white
\* space and the separators , . ; ! ? gets empty lists from the scorer of
\* the stage (recall, recognition or fluency) and leaves the found words,
\* the fluency list, the capture and the scores as they are.
C21_Step ==
  (spoken' = spoken + 1 /\ Blank(args'.transcript)) =>
    /\ args'.fn # "none" => NothingReturned(result', args'.fn)
    /\ UNCHANGED <<currentStageFoundWords, verbalFluencyList,
                   currentStageResponses, scores>>

C21_BlankTranscriptScoresNothing == [][C21_Step]_vars

\* after a target was found, separators alone were scored in the same phase
C21_Witness ==
  /\ Scored
  /\ args.transcript = <<",", " ">>
  /\ args.already # <<>>
  /\ result.tokens = <<>>
  /\ currentStageFoundWords = args.already
  /\ spoken = 2

\* C22: a call of scoreRecallUtterance, scoreRecognitionUtterance or
\* scoreFluencyUtterance leaves its arguments (the transcript, the
\* alreadyHit or alreadyProduced list, the dictionary), the loaded
\* vocabulary tables and the state of the reducer as they were; the only
\* module state a call writes is the cache of the normalized dictionary,
\* which holds the canonical entries of the dictionary and no credit.
C22_Step ==
  (pc = "call" /\ pc' = "done") =>
    /\ args' = args
    /\ vocabulary' = vocabulary
    /\ UNCHANGED app
    /\ IF args.fn = "scoreFluencyUtterance"
       THEN /\ cachedAnimalSource' = args.validAnimals
            /\ cachedNormalizedAnimals' = CanonicalEntries[args.validAnimals]
       ELSE UNCHANGED cache

C22_ScorersLeaveArguments == [][C22_Step]_vars

\* a recall call that started from an empty alreadyHit credited a target
\* and classified its second mention as a repeat: the seen set changed
\* inside the call, the list of the caller did not
C22_Witness ==
  /\ pc = "done"
  /\ args.fn = "scoreRecallUtterance"
  /\ args.already = <<>>
  /\ Len(result.hits) = 1
  /\ result.repeats # <<>>
  /\ result.repeats[1].mappedId = result.hits[1]

\* for each configuration, the pairs <<canonical form, identity>> of the
\* calls allTargetForms.set makes while the module loads
RegisteredTargetForms ==
  [v \in DOMAIN Vocabularies |->
     {<<s.key, s.value.id>> : s \in targetCalls(Vocabularies[v])}]

\* C23: in the module loaded with the shipped TARGET_WORDS and
\* TARGET_SYNONYMS, two registrations of the same canonical form, primary
\* or synonym, are registrations for the same target identity, and the
\* table maps the form to that identity.
C23_NoFormSharedByTargets ==
  vocabulary = "SHIPPED" =>
    \A p \in RegisteredTargetForms[vocabulary] :
      /\ allTargetForms[p[1]].id = p[2]
      /\ \A q \in RegisteredTargetForms[vocabulary] :
           p[1] = q[1] => p[2] = q[2]

\* the form 'aviao' is registered twice, by the primary spelling and by a
\* synonym of the same target, and a recall call has mapped it
C23_Witness ==
  /\ vocabulary = "SHIPPED"
  /\ pc = "done"
  /\ args.fn = "scoreRecallUtterance"
  /\ result.hits = <<TARGET_WORDS[9]>>
  /\ Cardinality({s \in targetCalls(Vocabularies.SHIPPED) :
                    s.key = <<"a","v","i","a","o">>}) = 2

\* C24: the clockDrawing score of the session is an integer from 0 to 5,
\* whatever analyzeClockDrawing resolved to and whatever the examiner
\* registered.
C24_ClockScoreWithinShulman == scores.clockDrawing \in 0..5

\* the recognitions whose onresult handler can still call onResult
DeliveringSessions ==
  (IF recognitionRef = "recognition" THEN 1 ELSE 0)
    + (IF stoppedSession THEN 1 ELSE 0)

\* C25: at most one recognition can hand transcripts to onResult, and the
\* recognition that hands one over is the running one that recognitionRef
\* holds: a recognition stopRecognition has stopped hands over nothing.
C25_Step ==
  /\ DeliveringSessions' <= 1
  /\ delivered'.heard => (recognitionRef = "recognition" /\ ~stoppedSession)

C25_SingleTranscriptStream == [][C25_Step]_vars

\* C26: when a recognition has ended while isListening is true (the
\* microphone is active and no recognition is held), a new recognition is
\* started, unless isListening turns false first.
C26_ListeningResumes ==
  (isMicGlobalActive /\ recognitionRef = "null")
    ~> (recognitionRef = "recognition" \/ ~isMicGlobalActive)

\* in the recall of the naming phase the recognition has ended and the
\* restart is scheduled
C26_Witness ==
  /\ stage = "NAMING"
  /\ isMicGlobalActive
  /\ recognitionRef = "null"
  /\ restartTimer

\* the tokens of the sequence with the given classification, in order
Classified(tokens, c) ==
  SelectSeq(tokens, LAMBDA t : t.classification = c)

\* C27: a PROCESS_SPEECH in RECOGNITION appends to the intrusions of the
\* capture the intrusion tokens of the utterance followed by its distractor
\* tokens, every one of them, and the found words grow only by the targets
\* the utterance credited: a distractor adds nothing to them, and the
\* recognition score stays the number of found words.
C27_Step ==
  (spoken' = spoken + 1 /\ stage = "RECOGNITION") =>
    /\ currentStageResponses'.intrusions
         = currentStageResponses.intrusions
             \o Classified(result'.tokens, "intrusion")
             \o Classified(result'.tokens, "distractor")
    /\ currentStageFoundWords'
         = ArrayFromSet(currentStageFoundWords
                          \o mappedIds(Classified(result'.tokens, "target")))
    /\ scores'.recognition = Len(currentStageFoundWords')
    /\ Classified(result'.tokens, "target") = <<>> =>
         /\ currentStageFoundWords' = currentStageFoundWords
         /\ scores'.recognition = Len(currentStageFoundWords)

C27_DistractorsCapturedNotCredited == [][C27_Step]_vars

\* after a target was recognized, an utterance naming a distractor by a
\* synonym was captured as an intrusion and credited nothing
C27_Witness ==
  /\ stage = "RECOGNITION"
  /\ Scored
  /\ spoken = 2
  /\ Len(result.distractorHits) = 1
  /\ result.hits = <<>>
  /\ Len(currentStageFoundWords) = 1
  /\ scores.recognition = 1
  /\ currentStageResponses.intrusions = result.distractorHits

\* C28: while IMMEDIATE_MEMORY or LEARNING shows the picture sheet
\* (phaseMode is MEMORIZE), a final transcript changes neither
\* currentStageFoundWords nor the score of the phase.
C28_Step ==
  (/\ stage \in TimedStudyStages
   /\ phaseMode = "MEMORIZE"
   /\ delivered'.heard
   /\ delivered'.isFinal) =>
    /\ currentStageFoundWords' = currentStageFoundWords
    /\ scores'[scoreKey[stage]] = scores[scoreKey[stage]]

C28_NoScoringWhileMemorizing == [][C28_Step]_vars

\* C29: while isListening is false, VoiceRecorder holds no running
\* recognition: none is left running and none is started, also not by a
\* restart that onend scheduled before isListening turned false.
C29_NoSessionWhileNotListening ==
  ~isMicGlobalActive => recognitionRef = "null"

\* the final transcript PROCESS_SPEECH has just scored is the one it scored
\* in the step before, in the same phase
SameTranscriptAgain ==
  /\ spoken' = spoken + 1
  /\ args.fn # "none"
  /\ args'.fn = args.fn
  /\ args'.transcript = args.transcript

\* what the second processing of a transcript leaves as it was, and what it
\* appends to the capture
SecondProcessingAddsNothing ==
  /\ UNCHANGED <<currentStageFoundWords, verbalFluencyList, scores>>
  /\ IF args'.fn = "scoreFluencyUtterance"
     THEN result'.animals = <<>>
     ELSE result'.hits = <<>>
  /\ currentStageResponses'.tokens
       = currentStageResponses.tokens \o result'.tokens
  /\ currentStageResponses'.repeats
       = currentStageResponses.repeats \o result'.repeats

\* C30 as stated: the second processing of the same final transcript in a
\* phase leaves the found words, the fluency list and the scores as the
\* first left them, and adds to the tokens and the repeats of the capture
\* only: the intrusions of the capture stay as they are.
C30_Original ==
  SameTranscriptAgain =>
    /\ SecondProcessingAddsNothing
    /\ currentStageResponses'.intrusions = currentStageResponses.intrusions

C30_SecondProcessingOnlyTokensAndRepeats == [][C30_Original]_vars

\* C30: the second processing of the same final transcript in a phase
\* leaves the found words, the fluency list and the scores as the first left
\* them and credits nothing; it appends its tokens and repeats to the
\* capture, and the words that are no targets are appended to the
\* intrusions of the capture once more.
C30_Step ==
  SameTranscriptAgain =>
    /\ SecondProcessingAddsNothing
    /\ \E added \in {Classified(result'.tokens, "intrusion")
                       \o Classified(result'.tokens, "distractor")} :
         /\ currentStageResponses'.intrusions
              = currentStageResponses.intrusions \o added
         /\ Len(added) = Len(Classified(result.tokens, "intrusion"))
                          + Len(Classified(result.tokens, "distractor"))

C30_SecondProcessingCreditsNothing == [][C30_Step]_vars

\* 'sapato, barco' was processed twice in a recall phase: one found word,
\* one repeat, and the intrusion 'barco' captured twice
C30_Witness ==
  /\ args.fn = "scoreRecallUtterance"
  /\ spoken = 2
  /\ args.transcript
       = <<"s","a","p","a","t","o",",", " ","b","a","r","c","o">>
  /\ currentStageFoundWords = <<TARGET_WORDS[1]>>
  /\ Len(currentStageResponses.tokens) = 4
  /\ Len(result.repeats) = 1
  /\ Len(currentStageResponses.intrusions) = 2
  /\ currentStageResponses.intrusions[1].raw = <<"b","a","r","c","o">>
  /\ currentStageResponses.intrusions[2].raw = <<"b","a","r","c","o">>

(***************************************************************************)
(* The lists of one recall or recognition result                           *)
(***************************************************************************)
\* the words a transcript of the recall inputs was said with
SpokenWords ==
  [t \in RecallTranscripts |->
     CHOOSE ws \in SeqsUpTo(RecallLexicon, MaxRecallWords) : say(ws, 1) = t]

\* the token lists of the result of fn, by the classification they hold
TokenLists(r, fn) ==
  [c \in (IF fn = "scoreRecognitionUtterance"
          THEN {"intrusion", "repeat", "distractor"}
          ELSE {"intrusion", "repeat"}) |->
     IF c = "intrusion" THEN r.intrusions
     ELSE IF c = "repeat" THEN r.repeats ELSE r.distractorHits]

TargetTokens(r) ==
  {i \in DOMAIN r.tokens : r.tokens[i].classification = "target"}

OneTokenPerWord(r, words) ==
  /\ Len(r.tokens) = Len(words)
  /\ \A i \in DOMAIN words : r.tokens[i].raw = words[i]

EachTokenInOneList(r, fn) ==
  /\ \A i \in DOMAIN r.tokens :
       IF i \in TargetTokens(r)
       THEN /\ Cardinality({j \in DOMAIN r.hits :
                              r.hits[j] = r.tokens[i].mappedId}) = 1
            /\ \A c \in DOMAIN TokenLists(r, fn) :
                 r.tokens[i] \notin Range(TokenLists(r, fn)[c])
       ELSE /\ r.tokens[i].classification \in DOMAIN TokenLists(r, fn)
            /\ \A c \in DOMAIN TokenLists(r, fn) :
                 r.tokens[i] \in Range(TokenLists(r, fn)[c])
                   <=> c = r.tokens[i].classification
  /\ \A j \in DOMAIN r.hits :
       Cardinality({i \in TargetTokens(r) :
                      r.tokens[i].mappedId = r.hits[j]}) = 1
  /\ \A c \in DOMAIN TokenLists(r, fn) :
       Len(TokenLists(r, fn)[c]) =
         Cardinality({i \in DOMAIN r.tokens : r.tokens[i].classification = c})

\* C31: the result of scoreRecallUtterance and scoreRecognitionUtterance has
\* one token per word of the transcript, in spoken order; every token is in
\* exactly one list of the result by its classification, the target tokens
\* one to one with hits, so the number of target tokens is the length of hits
C31_TokensPartitionTheUtterance ==
  Returned({"scoreRecallUtterance", "scoreRecognitionUtterance"}) =>
    /\ OneTokenPerWord(result, SpokenWords[args.transcript])
    /\ EachTokenInOneList(result, args.fn)
    /\ Cardinality(TargetTokens(result)) = Len(result.hits)

\* a recognition call whose three words are a target, the same target in
\* another form and a distractor
C31_Witness ==
  /\ Returned({"scoreRecognitionUtterance"})
  /\ Len(result.tokens) = 3
  /\ args.already = <<>>
  /\ result.tokens[1].classification = "target"
  /\ result.tokens[2].classification = "repeat"
  /\ result.tokens[3].classification = "distractor"

\* C32: the tokens of a scoreFluencyUtterance result hold every record the
\* call produced: their number is |animals| + |repeats| + |invalid| and
\* every entry of repeats is an entry of tokens
C32_FluencyTokensHoldEveryRecord ==
  Returned({"scoreFluencyUtterance"}) =>
    /\ Len(result.tokens)
         = Len(result.animals) + Len(result.repeats) + Len(result.invalid)
    /\ Range(result.repeats) \subseteq Range(result.tokens)

\* the records pushed onto the given lists, in the order of the pushes
PushedOnto(lists) == SelectSeq(trace, LAMBDA m : m.list \in lists)

InSpokenOrder(matches) ==
  \A k \in 1..(Len(matches) - 1) : matches[k].start < matches[k + 1].start

\* C33: the animals and the tokens returned by scoreFluencyUtterance are in
\* the order in which they were spoken in the utterance, whatever mix of
\* one-word, two-word and three-word names it contains
C33_FluencyListsInSpokenOrder ==
  Returned({"scoreFluencyUtterance"}) =>
    /\ Len(PushedOnto({"animals"})) = Len(result.animals)
    /\ \A k \in DOMAIN result.animals :
         result.animals[k] = PushedOnto({"animals"})[k].phrase
    /\ InSpokenOrder(PushedOnto({"animals"}))
    /\ Len(PushedOnto({"animals", "invalid"})) = Len(result.tokens)
    /\ InSpokenOrder(PushedOnto({"animals", "invalid"}))

\* the canonical forms of the entries the dictionary object holds now
CanonicalEntriesNow(validAnimals) ==
  {normalize(animal) :
     animal \in AnimalSets[validAnimals] \cup addedAnimals[validAnimals]}

\* what the call returns for the lookup Set given
ReturnedWith(lookup) ==
  fluencyResult(threePasses(tokenize(args.transcript), lookup,
                  [seen |-> seedSeen(args.already), tokens |-> <<>>,
                   animals |-> <<>>, invalid |-> <<>>, repeats |-> <<>>,
                   consumed |-> {}, matches |-> <<>>]))

C34_Step ==
  (pc = "call" /\ pc' = "done" /\ args.fn = "scoreFluencyUtterance") =>
    /\ cachedNormalizedAnimals' = CanonicalEntriesNow(args.validAnimals)
    /\ result' = ReturnedWith(CanonicalEntriesNow(args.validAnimals))

\* C34: in any sequence of calls of scoreFluencyUtterance the lookup Set a
\* call uses holds the canonical forms of the entries its dictionary holds
\* at the time of the call, whatever earlier calls received, and the result
\* of the call does not depend on earlier calls
C34_LookupFollowsDictionary == [][C34_Step]_vars

\* C35: for every form registered for a target in the shipped vocabulary,
\* primary word or synonym, scoreRecallUtterance of exactly that form with
\* nothing already hit returns that target as its only hit, one token and
\* no intrusion
C35_EveryRegisteredFormIsOneHit ==
  (Returned({"scoreRecallUtterance"}) /\ args.already = <<>>) =>
    \A f \in RegisteredForms :
      f.form = args.transcript =>
        /\ result.hits = <<f.target>>
        /\ Len(result.tokens) = 1
        /\ result.intrusions = <<>>

\* the stages a voice scorer is bound to, with the score each one counts
StageScore ==
  [NAMING |-> "naming", INCIDENTAL_MEMORY |-> "incidentalMemory",
   IMMEDIATE_MEMORY |-> "immediateMemory", LEARNING |-> "learning",
   VERBAL_FLUENCY |-> "verbalFluency", DELAYED_MEMORY |-> "delayedMemory",
   RECOGNITION |-> "recognition"]

C36_Step ==
  spoken' = spoken + 1 =>
    /\ UNCHANGED <<stage, currentPatientId, clockImageBase64>>
    /\ \A key \in DOMAIN scores :
         (stage \in DOMAIN StageScore /\ key = StageScore[stage])
           \/ scores'[key] = scores[key]
    /\ stage \notin DOMAIN StageScore =>
         UNCHANGED <<scores, currentStageFoundWords, verbalFluencyList,
                     currentStageResponses>>

\* C36: PROCESS_SPEECH changes at most the numeric score of the current
\* stage and leaves every other score, the stage, the patient id and the
\* clock image as they are; in a stage without a voice scorer it changes no
\* score, found-word list, fluency list or response capture
C36_SpeechTouchesOnlyStageScore == [][C36_Step]_vars

\* a transcript was credited in INCIDENTAL_MEMORY after one was credited in
\* NAMING, whose score is still there
C36_Witness ==
  /\ spoken = 2
  /\ stage = "INCIDENTAL_MEMORY"
  /\ args.fn = "scoreRecallUtterance"
  /\ scores.naming > 0
  /\ scores.incidentalMemory > 0

C37_Step ==
  (stage # "PRE_TEST_CHECK" /\ stage' = "PRE_TEST_CHECK") =>
    /\ \A key \in DOMAIN scores : scores'[key] = 0
    /\ currentStageFoundWords' = <<>>
    /\ verbalFluencyList' = <<>>
    /\ currentStageResponses' = EMPTY_CAPTURE
    /\ clockImageBase64' = "null"

\* C37: after START_TEST_SETUP every numeric score is 0 and the found
\* words, the fluency list, the response capture and the clock image are
\* empty: nothing of an earlier test of the session carries over
C37_NewTestStartsClean == [][C37_Step]_vars

\* a test is set up after a session in which a fluency transcript was
\* scored (the dictionary cache of that call is still there)
C37_Witness ==
  /\ stage = "PRE_TEST_CHECK"
  /\ cachedAnimalSource = "ANIMAL_LIST"
  /\ scores = INITIAL_SCORES
  /\ clockImageBase64 = "null"

\* the analyses that complete in this step
Completed ==
  {p \in pendingAnalysis :
     /\ p \notin pendingAnalysis'
     /\ Cardinality(pendingAnalysis') < Cardinality(pendingAnalysis)}

\* the stored score is newer than the drawing of p: it is the analysis of a
\* later drawing, or the examiner registered it after the drawing was saved
Superseded(p) ==
  \/ scoreSource.by = "analysis" /\ scoreSource.drawing > p.drawing
  \/ scoreSource.by = "examiner" /\ scoreSource.drawing >= p.drawing

C38_Step ==
  \A p \in Completed :
    Superseded(p) => scores'.clockDrawing = scores.clockDrawing

\* C38: when several drawings are saved while analyses are in flight, an
\* analysis of an earlier drawing that completes later never overwrites the
\* analysis of a newer drawing or a score the examiner registered in the
\* meantime, so the score finally stored is that of the latest drawing
C38_LatestDrawingWins == [][C38_Step]_vars

\* the call of this step is addTestResult for a patient stored as entry i
AppendsTo(before, after, i) ==
  /\ Len(after) = Len(before)
  /\ after[i] = [before[i] EXCEPT !.history = Append(@, args'.value)]
  /\ \A j \in DOMAIN before : j # i => after[j] = before[j]

C39_Step ==
  /\ args'.fn = "addTestResult" =>
       IF \E i \in DOMAIN getPatients : getPatients[i].id = args'.patientId
       THEN \E i \in DOMAIN getPatients :
              /\ getPatients[i].id = args'.patientId
              /\ AppendsTo(getPatients, getPatientsOf(localStorage'), i)
       ELSE localStorage' = localStorage
  /\ \A i, j \in DOMAIN getPatientsOf(localStorage') :
       i # j => getPatientsOf(localStorage')[i].id
                  # getPatientsOf(localStorage')[j].id

\* C39: addTestResult appends the result as the last entry of the history
\* of the patient and leaves every other stored patient and the earlier
\* entries as they are; for an id that is not stored it leaves the storage
\* as it is; after any sequence of createPatient, savePatient and
\* addTestResult no two stored patients have the same id
C39_ResultsAppendedToOnePatient == [][C39_Step]_vars

\* a second result was added to the first of two stored patients, the
\* other of which has a result as well
C39_Witness ==
  /\ args.fn = "addTestResult"
  /\ Len(getPatients) = 2
  /\ getPatients[1].id = args.patientId
  /\ Len(getPatients[1].history) = 2
  /\ getPatients[1].history[2] = args.value
  /\ getPatients[1].history[1] # args.value
  /\ getPatients[2].history # <<>>
====
